---- MODULE Spec2Model ----
(***************************************************************************)
(* A model of the pizza-ordering backend: the persistence layer            *)
(* (DatabaseStorage), the Express route handlers that read and write it,   *)
(* and the order in which registerRoutes registers them.                   *)
(*                                                                         *)
(* A request handler is an async function: it runs synchronously up to its *)
(* next awaited storage call, and other requests may run between two       *)
(* awaits.  Each handler is therefore a small process: a start action (the *)
(* middleware and the synchronous prologue) and one action per awaited     *)
(* storage call (the call's effect on the tables, then the synchronous     *)
(* code up to the next await or the response).  pc[r] is the position of   *)
(* the request in slot r, req[r] its session and body, loc[r] the          *)
(* handler's local variables, resp[r] the response it sent.                *)
(*                                                                         *)
(* Money is kept in hundredths of a currency unit, so that a percentage of *)
(* a whole amount and a tenth of a unit per loyalty point are integers.    *)
(* Nullable columns hold <<>> (NULL) or <<v>>.                             *)
(***************************************************************************)
EXTENDS Integers, Sequences, FiniteSets, TLC

VARIABLES
    now,            \* the server clock (new Date())
    users,          \* users table: user -> [loyaltyPoints, isAdmin]
    promotions,     \* promotions table: row i has id i
    orders,         \* orders table: row i has id i
    orderItems,     \* order_items table
    catalog,        \* pizza_bases/sauces/cheeses/toppings: item -> [stock, threshold]
    notifications,  \* notifications table
    reviews,        \* reviews table
    plans,          \* subscription_plans table: row i has id i
    subscriptions,  \* user_subscriptions table: row i has id i
    paymentMethods, \* payment_methods table: row i has id i
    sockets,        \* the WebSocket objects: socket i was opened i-th
    userConnections, \* notifications.ts: the Map user id -> ids of its sockets
    sent,           \* the messages pushed to each socket
    currentStep,    \* pizza-builder.tsx: the wizard's step
    pizzaConfig,    \* pizza-builder-context.tsx: the pizza being built
    cartItems,      \* cart-context.tsx: the cart
    page,           \* the page the browser shows
    pc, req, loc, resp,  \* the requests in flight, per slot
    snap            \* history: what a request saw when it arrived

\* The tables and connections that the order, promotion and payment handlers
\* never write, and the state of the browser.
socketVars == <<sockets, userConnections, sent>>
serverExtVars == <<reviews, plans, subscriptions, paymentMethods, socketVars>>
clientVars == <<currentStep, pizzaConfig, cartItems, page>>
extVars == <<reviews, plans, subscriptions, paymentMethods, socketVars, clientVars>>
dbVars  == <<users, promotions, orders, orderItems, catalog, notifications, extVars>>
reqVars == <<pc, req, loc, resp, snap>>
vars    == <<now, users, promotions, orders, orderItems, catalog, notifications,
             reviews, plans, subscriptions, paymentMethods, sockets, userConnections, sent,
             currentStep, pizzaConfig, cartItems, page, pc, req, loc, resp, snap>>

(***************************************************************************)
(* Bounds of the model.                                                    *)
(***************************************************************************)
MaxTime   == 2     \* the clock runs 0..MaxTime
MaxPromos == 2     \* promotions the admin creates
MaxOrders == 2     \* orders placed
MaxPoints == 12    \* no new crediting or redeeming request above this balance

Slots == {1, 2}

Customers == {"alice", "bob"}
Admins    == {"admin"}
Users     == Customers \cup Admins
Anon      == "anon"
Sessions  == Users \cup {Anon}

Cents(units) == units * 100

NULL == <<>>
Some(v) == <<v>>
IsNull(o) == o = <<>>
Val(o) == o[1]

Min(a, b) == IF a <= b THEN a ELSE b

(***************************************************************************)
(* Middleware.                                                             *)
(***************************************************************************)
isAuthenticated(s) == s \in Users

ensureAuthenticated(s) == isAuthenticated(s)

\* (a slip: the isAdmin test left out)
ensureAdminAnySession(s) == s \in Users

ensureAdmin(s) == isAuthenticated(s) /\ users[s].isAdmin

(***************************************************************************)
(* Request slots.                                                          *)
(***************************************************************************)
Free(r) == pc[r] \in {"idle", "done"}

\* A request arrives in slot r.
Arrive(r, request, seen) ==
    /\ Free(r)
    /\ req' = [req EXCEPT ![r] = request]
    /\ snap' = [snap EXCEPT ![r] = seen]

\* The handler sends its response and ends.
Respond(r, response) ==
    /\ pc' = [pc EXCEPT ![r] = "done"]
    /\ resp' = [resp EXCEPT ![r] = response]
    /\ loc' = [loc EXCEPT ![r] = <<>>]

\* The handler goes on to its next awaited call.
Goto(r, label, locals) ==
    /\ pc' = [pc EXCEPT ![r] = label]
    /\ loc' = [loc EXCEPT ![r] = locals]
    /\ resp' = [resp EXCEPT ![r] = <<>>]

Status(code) == [status |-> code]

(***************************************************************************)
(* The clock.                                                              *)
(***************************************************************************)
Tick ==
    /\ now < MaxTime
    /\ now' = now + 1
    /\ UNCHANGED <<dbVars, reqVars>>

(***************************************************************************)
(* Promotions: storage.                                                    *)
(***************************************************************************)
Digits == <<"0", "1", "2", "3", "4", "5", "6", "7", "8", "9">>

\* Number.prototype.toString of a row id.
RECURSIVE toString(_)
toString(n) ==
    IF n < 10 THEN Digits[n + 1] ELSE toString(n \div 10) \o Digits[(n % 10) + 1]

\* The row with this code (the column is UNIQUE), or NULL.
getPromotionByCode(code) ==
    LET rows == {i \in DOMAIN promotions : promotions[i].code = code}
    IN  IF rows = {} THEN NULL ELSE Some(promotions[CHOOSE i \in rows : TRUE])

\* (a slip: lte in place of lt)
usageAtMostCap(p) == ~IsNull(p.maxUses) /\ p.currentUses <= Val(p.maxUses)

\* lt(promotions.usageCount, promotions.maxUsage): SQL's < is not true of NULL.
usageBelowCap(p) == ~IsNull(p.maxUses) /\ p.currentUses < Val(p.maxUses)

validatePromotion(code, orderAmount) ==
    LET rows == {i \in DOMAIN promotions :
                    /\ promotions[i].code = code
                    /\ promotions[i].isActive = TRUE
                    /\ promotions[i].startDate <= now
                    /\ promotions[i].endDate >= now
                    /\ usageBelowCap(promotions[i])
                    /\ promotions[i].minOrderAmount <= orderAmount}
    IN  IF rows = {} THEN NULL ELSE Some(promotions[CHOOSE i \in rows : TRUE])

\* INSERT INTO promotions; id is the serial primary key, current_uses defaults to 0.
createPromotion(promotion) ==
    Append(promotions,
           [id |-> Len(promotions) + 1,
            code |-> promotion.code,
            discountType |-> promotion.discountType,
            discountValue |-> promotion.discountValue,
            minOrderAmount |-> promotion.minOrderAmount,
            maxUses |-> promotion.maxUses,
            currentUses |-> 0,
            startDate |-> promotion.startDate,
            endDate |-> promotion.endDate,
            isActive |-> promotion.isActive])

\* incrementPromotionUse, first await: the promotion is looked up by the code
\* id.toString(), not by the id.
incrementPromotionUseLookup(id) == getPromotionByCode(toString(id))

\* incrementPromotionUse, second await: UPDATE ... SET usageCount = <read> + 1
\* WHERE id = <id>.
incrementPromotionUseUpdate(id, promotion) ==
    [i \in DOMAIN promotions |->
        IF promotions[i].id = id
        THEN [promotions[i] EXCEPT !.currentUses = promotion.currentUses + 1]
        ELSE promotions[i]]

\* UPDATE orders SET promotionId, discountAmount WHERE id = <id>.
updateOrderPromotion(id, promotionId, discountAmount) ==
    [i \in DOMAIN orders |->
        IF i = id
        THEN [orders[i] EXCEPT !.promotionId = Some(promotionId),
                               !.discountAmount = discountAmount]
        ELSE orders[i]]

getOrder(id) == IF id \in DOMAIN orders THEN Some(orders[id]) ELSE NULL

(***************************************************************************)
(* Promotions: routes.                                                     *)
(***************************************************************************)
\* (a slip: the Math.min line left out)
validateDiscountAmountUnclamped(promotion, orderAmount) ==
    IF promotion.discountType = "percentage"
    THEN (orderAmount * promotion.discountValue) \div 100
    ELSE promotion.discountValue

\* POST /api/promotions/validate: the discount for an order amount.
validateDiscountAmount(promotion, orderAmount) ==
    LET discountAmount ==
            IF promotion.discountType = "percentage"
            THEN (orderAmount * promotion.discountValue) \div 100
            ELSE promotion.discountValue
    IN  Min(discountAmount, orderAmount)

\* POST /api/orders/:id/apply-promotion: the discount for the order's total.
applyDiscountAmount(promotion, order) ==
    LET discountAmount ==
            IF promotion.discountType = "percentage"
            THEN (order.totalAmount * promotion.discountValue) \div 100
            ELSE promotion.discountValue
    IN  Min(discountAmount, order.totalAmount)

\* POST /api/admin/promotions.
CreatePromotionStart(r, s, promotion) ==
    /\ Len(promotions) < MaxPromos
    /\ Arrive(r, [kind |-> "createPromotion", session |-> s, body |-> promotion], <<>>)
    /\ IF ~ensureAdmin(s)
       THEN Respond(r, Status(403))
       ELSE Goto(r, "cp_insert", <<>>)
    /\ UNCHANGED <<now, dbVars>>

CreatePromotionInsert(r) ==
    /\ pc[r] = "cp_insert"
    /\ IF ~IsNull(getPromotionByCode(req[r].body.code))
       THEN \* the UNIQUE constraint rejects the insert; the catch answers 500
            /\ Respond(r, Status(500))
            /\ UNCHANGED promotions
       ELSE /\ promotions' = createPromotion(req[r].body)
            /\ Respond(r, [status |-> 201, promotion |-> promotions'[Len(promotions')]])
    /\ UNCHANGED <<now, extVars, users, orders, orderItems, catalog, notifications, req, snap>>

\* POST /api/promotions/validate: one awaited call.
ValidatePromotionStart(r, s, code, orderAmount) ==
    /\ Arrive(r, [kind |-> "validate", session |-> s, code |-> code,
                  orderAmount |-> orderAmount], <<>>)
    /\ IF ~ensureAuthenticated(s)
       THEN Respond(r, Status(401))
       ELSE IF code = "" \/ orderAmount = 0
       THEN Respond(r, Status(400))
       ELSE Goto(r, "vp_validate", <<>>)
    /\ UNCHANGED <<now, dbVars>>

ValidatePromotionQuery(r) ==
    /\ pc[r] = "vp_validate"
    /\ LET promotion == validatePromotion(req[r].code, req[r].orderAmount)
       IN  IF IsNull(promotion)
           THEN Respond(r, Status(404))
           ELSE LET discountAmount ==
                        validateDiscountAmount(Val(promotion), req[r].orderAmount)
                IN  Respond(r, [status |-> 200,
                                promotion |-> Val(promotion),
                                discountAmount |-> discountAmount,
                                finalAmount |-> req[r].orderAmount - discountAmount])
    /\ UNCHANGED <<now, dbVars, req, snap>>

\* POST /api/orders/:id/apply-promotion.
ApplyPromotionStart(r, s, orderId, code) ==
    /\ Arrive(r, [kind |-> "apply", session |-> s, orderId |-> orderId, code |-> code],
                 [currentUses |-> [i \in DOMAIN promotions |-> promotions[i].currentUses]])
    /\ IF ~ensureAuthenticated(s)
       THEN Respond(r, Status(401))
       ELSE IF code = ""
       THEN Respond(r, Status(400))
       ELSE Goto(r, "ap_getOrder", <<>>)
    /\ UNCHANGED <<now, dbVars>>

ApplyPromotionGetOrder(r) ==
    /\ pc[r] = "ap_getOrder"
    /\ LET order == getOrder(req[r].orderId)
       IN  IF IsNull(order)
           THEN Respond(r, Status(404))
           ELSE IF Val(order).userId # req[r].session
           THEN Respond(r, Status(403))
           ELSE Goto(r, "ap_validate", [order |-> Val(order)])
    /\ UNCHANGED <<now, dbVars, req, snap>>

ApplyPromotionValidate(r) ==
    /\ pc[r] = "ap_validate"
    /\ LET promotion == validatePromotion(req[r].code, loc[r].order.totalAmount)
       IN  IF IsNull(promotion)
           THEN Respond(r, Status(404))
           ELSE Goto(r, "ap_updateOrder",
                     [order |-> loc[r].order,
                      promotion |-> Val(promotion),
                      discountAmount |-> applyDiscountAmount(Val(promotion), loc[r].order)])
    /\ UNCHANGED <<now, dbVars, req, snap>>

ApplyPromotionUpdateOrder(r) ==
    /\ pc[r] = "ap_updateOrder"
    /\ orders' = updateOrderPromotion(req[r].orderId, loc[r].promotion.id,
                                      loc[r].discountAmount)
    /\ Goto(r, "ap_incrementLookup",
            [promotion |-> loc[r].promotion,
             discountAmount |-> loc[r].discountAmount,
             updatedOrder |-> orders'[req[r].orderId]])
    /\ UNCHANGED <<now, extVars, users, promotions, orderItems, catalog, notifications, req, snap>>

ApplyPromotionResponse(r) ==
    [status |-> 200,
     order |-> loc[r].updatedOrder,
     discountAmount |-> loc[r].discountAmount,
     finalAmount |-> loc[r].updatedOrder.totalAmount - loc[r].discountAmount]

ApplyPromotionIncrementLookup(r) ==
    /\ pc[r] = "ap_incrementLookup"
    /\ LET promotion == incrementPromotionUseLookup(loc[r].promotion.id)
       IN  IF IsNull(promotion)
           THEN \* incrementPromotionUse returns undefined; the handler goes on
                Respond(r, ApplyPromotionResponse(r))
           ELSE Goto(r, "ap_incrementUpdate",
                     [promotion |-> loc[r].promotion,
                      discountAmount |-> loc[r].discountAmount,
                      updatedOrder |-> loc[r].updatedOrder,
                      read |-> Val(promotion)])
    /\ UNCHANGED <<now, dbVars, req, snap>>

ApplyPromotionIncrementUpdate(r) ==
    /\ pc[r] = "ap_incrementUpdate"
    /\ promotions' = incrementPromotionUseUpdate(loc[r].promotion.id, loc[r].read)
    /\ Respond(r, ApplyPromotionResponse(r))
    /\ UNCHANGED <<now, extVars, users, orders, orderItems, catalog, notifications, req, snap>>

(***************************************************************************)
(* Route registration.  Express runs the first handler registered for a    *)
(* method and path; a handler that answers without calling next() ends the *)
(* request, so a later registration of the same route never runs.          *)
(***************************************************************************)
RegistrationOrder ==
    <<"registerProfileRoutes", "registerPaymentRoutes", "registerNotificationRoutes",
      "registerOrderRoutes", "registerSubscriptionRoutes", "registerPromotionRoutes",
      "registerInventoryRoutes", "registerAnalyticsRoutes",
      "registerRecommendationRoutes", "registerSocialRoutes", "registerRoutes">>

RoutesOf(module) ==
    CASE module = "registerPaymentRoutes" ->
            {"POST /api/process-payment", "POST /api/razorpay-webhook"}
      [] module = "registerOrderRoutes" ->
            {"POST /api/orders", "PATCH /api/admin/orders/:id/status"}
      [] module = "registerPromotionRoutes" ->
            {"POST /api/admin/promotions", "POST /api/promotions/validate",
             "POST /api/orders/:id/apply-promotion", "POST /api/loyalty-points/redeem"}
      [] module = "registerInventoryRoutes" ->
            {"GET /api/admin/inventory/low-stock", "PATCH /api/admin/pizza-bases/:id/stock",
             "GET /api/pizza-bases"}
      [] module = "registerRoutes" ->
            {"GET /api/pizza-bases", "POST /api/orders", "POST /api/payment",
             "PATCH /api/admin/orders/:id/status"}
      [] OTHER -> {}

Dispatch(route) ==
    LET at == {i \in DOMAIN RegistrationOrder : route \in RoutesOf(RegistrationOrder[i])}
    IN  RegistrationOrder[CHOOSE i \in at : \A j \in at : i <= j]

(***************************************************************************)
(* Orders: storage.                                                        *)
(***************************************************************************)
\* INSERT INTO orders: status and paymentStatus start "pending"; the discount
\* columns take their defaults.
createOrder(order) ==
    Append(orders,
           [id |-> Len(orders) + 1,
            userId |-> order.userId,
            status |-> "pending",
            totalAmount |-> order.totalAmount,
            paymentId |-> NULL,
            paymentStatus |-> "pending",
            deliveryAddress |-> order.deliveryAddress,
            actualDeliveryTime |-> NULL,
            trackingUrl |-> NULL,
            estimatedDeliveryTime |-> NULL,
            promotionId |-> NULL,
            discountAmount |-> 0,
            loyaltyDiscountAmount |-> 0,
            loyaltyPointsRedeemed |-> 0])

createOrderItem(item) ==
    Append(orderItems,
           [id |-> Len(orderItems) + 1,
            orderId |-> item.orderId,
            pizzaDetails |-> item.pizzaDetails,
            price |-> item.price,
            quantity |-> item.quantity])

getOrderItems(orderId) ==
    SelectSeq(orderItems, LAMBDA item : item.orderId = orderId)

\* (a slip: the row is not stored)
createNotificationDropped(notification) == notifications

createNotification(notification) ==
    Append(notifications,
           [id |-> Len(notifications) + 1,
            userId |-> notification.userId,
            type |-> notification.type,
            isRead |-> FALSE])

(***************************************************************************)
(* Orders: POST /api/orders as registerOrderRoutes serves it.              *)
(***************************************************************************)
\* insertOrderSchema: totalAmount must be a number; the text columns take any
\* string.
insertOrderSchemaOk(body) == ~IsNull(body.totalAmount)

\* insertOrderItemSchema: price must be a number, pizzaDetails must be there.
insertOrderItemSchemaOk(item) == ~IsNull(item.price) /\ ~IsNull(item.pizzaDetails)

StockOf == [i \in DOMAIN catalog |-> catalog[i].stock]

PlaceOrderStart(r, s, body) ==
    /\ Dispatch("POST /api/orders") = "registerOrderRoutes"
    /\ Len(orders) < MaxOrders
    /\ Arrive(r, [kind |-> "placeOrder", session |-> s, body |-> body],
                 [stock |-> StockOf, orders |-> Len(orders),
                  orderItems |-> Len(orderItems), notifications |-> Len(notifications)])
    /\ IF ~ensureAuthenticated(s)
       THEN Respond(r, Status(401))
       ELSE IF ~insertOrderSchemaOk(body)
       THEN Respond(r, Status(400))
       ELSE Goto(r, "po_createOrder", <<>>)
    /\ UNCHANGED <<now, dbVars>>

PlaceOrderCreateOrder(r) ==
    /\ pc[r] = "po_createOrder"
    /\ orders' = createOrder([userId |-> req[r].session,
                              totalAmount |-> Val(req[r].body.totalAmount),
                              deliveryAddress |-> req[r].body.deliveryAddress])
    /\ LET pending == SelectSeq(req[r].body.items, insertOrderItemSchemaOk)
       IN  Goto(r, IF pending = <<>> THEN "po_getItems" ELSE "po_createItem",
                [newOrder |-> orders'[Len(orders')], pending |-> pending])
    /\ UNCHANGED <<now, extVars, users, promotions, orderItems, catalog, notifications, req, snap>>

\* The loop over req.body.items: an item that fails insertOrderItemSchema is
\* skipped, the others are inserted one awaited call at a time.
PlaceOrderCreateItem(r) ==
    /\ pc[r] = "po_createItem"
    /\ LET item == Head(loc[r].pending)
       IN  orderItems' = createOrderItem([orderId |-> loc[r].newOrder.id,
                                          pizzaDetails |-> Val(item.pizzaDetails),
                                          price |-> Val(item.price),
                                          quantity |-> item.quantity])
    /\ Goto(r, IF Tail(loc[r].pending) = <<>> THEN "po_getItems" ELSE "po_createItem",
            [newOrder |-> loc[r].newOrder, pending |-> Tail(loc[r].pending)])
    /\ UNCHANGED <<now, extVars, users, promotions, orders, catalog, notifications, req, snap>>

PlaceOrderGetItems(r) ==
    /\ pc[r] = "po_getItems"
    /\ Goto(r, "po_notify",
            [newOrder |-> loc[r].newOrder, orderItems |-> getOrderItems(loc[r].newOrder.id)])
    /\ UNCHANGED <<now, dbVars, req, snap>>

PlaceOrderNotify(r) ==
    /\ pc[r] = "po_notify"
    /\ notifications' = createNotification([userId |-> req[r].session,
                                            type |-> "order_created"])
    /\ Respond(r, [status |-> 201, order |-> loc[r].newOrder, items |-> loc[r].orderItems])
    /\ UNCHANGED <<now, extVars, users, promotions, orders, orderItems, catalog, req, snap>>

(***************************************************************************)
(* The initial state: the database as seedDatabase leaves it (a part of    *)
(* the seeded catalog), the users registered with the column defaults, no  *)
(* request in flight.                                                      *)
(***************************************************************************)
SeedCatalog ==
    [i \in {"Traditional", "Thin Crust", "Marinara", "Mozzarella", "Mushrooms"} |->
        CASE i = "Traditional" -> [kind |-> "base",    stock |-> 45, threshold |-> 20]
          [] i = "Thin Crust"  -> [kind |-> "base",    stock |-> 12, threshold |-> 20]
          [] i = "Marinara"    -> [kind |-> "sauce",   stock |-> 5,  threshold |-> 10]
          [] i = "Mozzarella"  -> [kind |-> "cheese",  stock |-> 30, threshold |-> 15]
          [] i = "Mushrooms"   -> [kind |-> "topping", stock |-> 22, threshold |-> 15]]

Init ==
    /\ now = 0
    /\ users = [u \in Users |-> [loyaltyPoints |-> 0, isAdmin |-> u \in Admins]]
    /\ promotions = <<>>
    /\ orders = <<>>
    /\ orderItems = <<>>
    /\ catalog = SeedCatalog
    /\ notifications = <<>>
    /\ reviews = <<>>
    /\ plans = <<>>
    /\ subscriptions = <<>>
    /\ paymentMethods = <<>>
    /\ sockets = <<>>
    /\ userConnections = [u \in {} |-> <<>>]
    /\ sent = <<>>
    /\ currentStep = 1
    /\ pizzaConfig = [base |-> NULL, sauce |-> NULL, cheese |-> NULL, toppings |-> <<>>]
    /\ cartItems = <<>>
    /\ page = "builder"
    /\ pc = [r \in Slots |-> "idle"]
    /\ req = [r \in Slots |-> <<>>]
    /\ loc = [r \in Slots |-> <<>>]
    /\ resp = [r \in Slots |-> <<>>]
    /\ snap = [r \in Slots |-> <<>>]

(***************************************************************************)
(* Promotions, one request at a time: the admin creates promotions,        *)
(* customers place orders, validate codes and apply them, the clock runs.  *)
(***************************************************************************)
Codes == {"SAVE20", "1"}

PromoEnd == MaxTime - 1

\* A promotion that is valid from the start for any order, used once at most.
BasePromotion ==
    [code |-> "SAVE20", discountType |-> "percentage", discountValue |-> 20,
     minOrderAmount |-> 0, maxUses |-> Some(1), startDate |-> 0, endDate |-> PromoEnd,
     isActive |-> TRUE]

\* The promotions the admin creates: the base one, and the base one with one
\* column changed.
PromotionInputs ==
    {BasePromotion,
     [BasePromotion EXCEPT !.code = "1"],
     [BasePromotion EXCEPT !.discountType = "fixed", !.discountValue = Cents(500)],
     [BasePromotion EXCEPT !.minOrderAmount = Cents(200)],
     [BasePromotion EXCEPT !.maxUses = NULL],
     [BasePromotion EXCEPT !.startDate = PromoEnd],
     [BasePromotion EXCEPT !.isActive = FALSE]}

PromoOrderBodies ==
    {[totalAmount |-> Some(Cents(a)), deliveryAddress |-> "12 Main Street", items |-> <<>>] :
        a \in {100, 600}}

MaxPromoOrders == 1   \* orders placed while promotions are exercised

PromoNext ==
    \/ Tick
    \/ \E s \in {"admin", "alice"}, p \in PromotionInputs : CreatePromotionStart(1, s, p)
    \/ CreatePromotionInsert(1)
    \/ /\ Len(orders) < MaxPromoOrders
       /\ \E s \in {"alice", Anon}, b \in PromoOrderBodies : PlaceOrderStart(1, s, b)
    \/ PlaceOrderCreateOrder(1)
    \/ PlaceOrderGetItems(1)
    \/ PlaceOrderNotify(1)
    \/ \E s \in {"alice", Anon}, c \in Codes \cup {"", "NOPE"}, a \in {0, Cents(100)} :
          ValidatePromotionStart(1, s, c, a)
    \/ ValidatePromotionQuery(1)
    \/ \E s \in {"alice", "bob", Anon}, o \in 1..MaxOrders, c \in Codes \cup {"", "NOPE"} :
          ApplyPromotionStart(1, s, o, c)
    \/ ApplyPromotionGetOrder(1)
    \/ ApplyPromotionValidate(1)
    \/ ApplyPromotionUpdateOrder(1)
    \/ ApplyPromotionIncrementLookup(1)
    \/ ApplyPromotionIncrementUpdate(1)

SpecPromo == Init /\ [][PromoNext]_vars

(***************************************************************************)
(* Claims about promotions.                                                *)
(***************************************************************************)
\* What the specification calls a valid promotion for a code and an amount.
ValidNow(code, amount) ==
    \E i \in DOMAIN promotions :
        /\ promotions[i].code = code
        /\ promotions[i].isActive
        /\ promotions[i].startDate <= now /\ now <= promotions[i].endDate
        /\ ~IsNull(promotions[i].maxUses)
        /\ promotions[i].currentUses < Val(promotions[i].maxUses)
        /\ promotions[i].minOrderAmount <= amount

\* C1: a validate request that reaches validatePromotion is answered 200 with
\* the promotion of that code if and only if, at the time of the call, that
\* promotion is active, now is within its dates, its use count is below its
\* cap and its minimum order amount is at most the order amount; otherwise
\* (also for an unknown code) there is no match and the answer is 404.  The
\* same holds of the validatePromotion call of apply-promotion.
C1_ValidateIffValid ==
    [][\A r \in Slots :
          /\ (pc[r] = "vp_validate" /\ pc'[r] # "vp_validate") =>
                IF ValidNow(req[r].code, req[r].orderAmount)
                THEN resp'[r].status = 200 /\ resp'[r].promotion.code = req[r].code
                ELSE resp'[r].status = 404
          /\ (pc[r] = "ap_validate" /\ pc'[r] # "ap_validate") =>
                IF ValidNow(req[r].code, loc[r].order.totalAmount)
                THEN pc'[r] = "ap_updateOrder" /\ loc'[r].promotion.code = req[r].code
                ELSE pc'[r] = "done" /\ resp'[r].status = 404]_vars

\* C1, its case: a code whose promotion exists and has used up its cap is
\* answered 404.
C1_Witness ==
    \E r \in Slots :
        /\ pc[r] = "done" /\ req[r].kind = "validate" /\ resp[r].status = 404
        /\ \E i \in DOMAIN promotions :
              /\ promotions[i].code = req[r].code
              /\ promotions[i].isActive
              /\ promotions[i].startDate <= now /\ now <= promotions[i].endDate
              /\ promotions[i].minOrderAmount <= req[r].orderAmount
              /\ ~IsNull(promotions[i].maxUses)
              /\ promotions[i].currentUses = Val(promotions[i].maxUses)

\* The discount the specification gives: the percentage of the amount or the
\* fixed value, at most the amount.
ClaimedDiscount(promotion, amount) ==
    LET raw == IF promotion.discountType = "percentage"
               THEN (amount * promotion.discountValue) \div 100
               ELSE promotion.discountValue
    IN  IF raw < amount THEN raw ELSE amount

\* C2: the discount answered by validate and by apply-promotion is
\* min(raw, orderAmount), and finalAmount = orderAmount - discount >= 0.
C2_DiscountClamped ==
    \A r \in Slots :
        (pc[r] = "done" /\ req[r].kind \in {"validate", "apply"} /\ resp[r].status = 200) =>
            LET amount == IF req[r].kind = "validate" THEN req[r].orderAmount
                          ELSE resp[r].order.totalAmount
                promotion == IF req[r].kind = "validate" THEN resp[r].promotion
                             ELSE promotions[Val(resp[r].order.promotionId)]
            IN  /\ resp[r].discountAmount = ClaimedDiscount(promotion, amount)
                /\ resp[r].finalAmount = amount - resp[r].discountAmount
                /\ resp[r].finalAmount >= 0

\* C2, its case: a fixed discount of 500 on an order amount of 100 is answered
\* as a discount of 100 and a final amount of 0.
C2_Witness ==
    \E r \in Slots :
        /\ pc[r] = "done" /\ req[r].kind = "validate" /\ resp[r].status = 200
        /\ resp[r].promotion.discountType = "fixed"
        /\ resp[r].promotion.discountValue = Cents(500)
        /\ req[r].orderAmount = Cents(100)
        /\ resp[r].discountAmount = Cents(100)
        /\ resp[r].finalAmount = 0

\* C3: after a successful apply-promotion the order holds the promotion and
\* the computed discount, and the promotion's usage counter is one higher
\* than it was when the request arrived.
C3_UsageIncremented ==
    \A r \in Slots :
        (pc[r] = "done" /\ req[r].kind = "apply" /\ resp[r].status = 200) =>
            LET id == Val(resp[r].order.promotionId)
            IN  /\ orders[req[r].orderId].promotionId = Some(id)
                /\ orders[req[r].orderId].discountAmount = resp[r].discountAmount
                /\ promotions[id].currentUses = snap[r].currentUses[id] + 1

(***************************************************************************)
(* Inventory: storage and routes.                                          *)
(***************************************************************************)
\* DatabaseStorage.getLowStockItems: where(lt(stock, threshold)).
lowStock(item) == item.stock < item.threshold

KindsInOrder == <<"base", "sauce", "cheese", "topping">>

\* One of the four queries of getLowStockItems: the low-stock rows of a table.
lowStockRows(kind) == {i \in DOMAIN catalog : catalog[i].kind = kind /\ lowStock(catalog[i])}

\* updatePizzaBaseStock and its three siblings: UPDATE ... SET stock WHERE id.
updatePizzaStock(id, stock) == [catalog EXCEPT ![id].stock = stock]

\* PATCH /api/admin/pizza-bases/:id/stock and its three siblings.
UpdateStockStart(r, s, id, stock) ==
    /\ Arrive(r, [kind |-> "updateStock", session |-> s, id |-> id, stock |-> stock], <<>>)
    /\ IF ~ensureAdmin(s)
       THEN Respond(r, Status(403))
       ELSE IF stock < 0
       THEN Respond(r, Status(400))
       ELSE Goto(r, "us_update", <<>>)
    /\ UNCHANGED <<now, dbVars>>

UpdateStockUpdate(r) ==
    /\ pc[r] = "us_update"
    /\ IF req[r].id \notin DOMAIN catalog
       THEN /\ Respond(r, Status(404))
            /\ UNCHANGED catalog
       ELSE /\ catalog' = updatePizzaStock(req[r].id, req[r].stock)
            /\ Respond(r, [status |-> 200, item |-> catalog'[req[r].id]])
    /\ UNCHANGED <<now, extVars, users, promotions, orders, orderItems, notifications, req, snap>>

\* GET /api/admin/inventory/low-stock.
LowStockStart(r, s) ==
    /\ Arrive(r, [kind |-> "lowStock", session |-> s], <<>>)
    /\ IF ~ensureAdmin(s)
       THEN Respond(r, Status(403))
       ELSE Goto(r, "ls_query", [table |-> 1, lowStockItems |-> {}])
    /\ UNCHANGED <<now, dbVars>>

\* getLowStockItems: the four tables are queried one after the other.
LowStockQuery(r) ==
    /\ pc[r] = "ls_query"
    /\ LET found == loc[r].lowStockItems \cup lowStockRows(KindsInOrder[loc[r].table])
       IN  IF loc[r].table < Len(KindsInOrder)
           THEN Goto(r, "ls_query", [table |-> loc[r].table + 1, lowStockItems |-> found])
           ELSE Respond(r, [status |-> 200, lowStockItems |-> found])
    /\ UNCHANGED <<now, dbVars, req, snap>>

\* getAllPizzaBases and its three siblings: every row of the table.
getAllPizzaItems(kind) ==
    {[name |-> i, stock |-> catalog[i].stock] : i \in {j \in DOMAIN catalog : catalog[j].kind = kind}}

\* (a slip: an item at stock zero still counts as available)
availableItemsFromZero(items, s) ==
    IF isAuthenticated(s) /\ users[s].isAdmin
    THEN items
    ELSE {item \in items : item.stock >= 0}

\* availableBases and its three siblings: an admin sees every row, anyone else
\* the rows with stock > 0.
availableItems(items, s) ==
    IF isAuthenticated(s) /\ users[s].isAdmin
    THEN items
    ELSE {item \in items : item.stock > 0}

\* GET /api/pizza-bases, /api/pizza-sauces, /api/pizza-cheeses and
\* /api/pizza-toppings: no middleware.
GetCatalogStart(r, s, kind) ==
    /\ Arrive(r, [kind |-> "getCatalog", session |-> s, table |-> kind], <<>>)
    /\ Goto(r, "gc_query", <<>>)
    /\ UNCHANGED <<now, dbVars>>

\* The handler of registerInventoryRoutes answers (it was registered first);
\* the inline handler of registerRoutes would send every row.
GetCatalogQuery(r) ==
    /\ pc[r] = "gc_query"
    /\ LET items == getAllPizzaItems(req[r].table)
       IN  IF Dispatch("GET /api/pizza-bases") = "registerInventoryRoutes"
           THEN Respond(r, [status |-> 200, items |-> availableItems(items, req[r].session)])
           ELSE Respond(r, [status |-> 200, items |-> items])
    /\ UNCHANGED <<now, dbVars, req, snap>>

(***************************************************************************)
(* Orders and inventory, one request at a time: customers place orders,    *)
(* the admin sets stock levels and reads the low-stock list.               *)
(***************************************************************************)
MaxLines == 2      \* cart lines of an order

LineTraditional ==
    [pizzaDetails |-> Some([base |-> Some("Traditional"), sauce |-> Some("Marinara"),
                            cheese |-> NULL, toppings |-> <<>>]),
     price |-> Some(Cents(50)), quantity |-> 2]

LineThinCrust ==
    [pizzaDetails |-> Some([base |-> Some("Thin Crust"), sauce |-> NULL,
                            cheese |-> Some("Mozzarella"), toppings |-> <<"Mushrooms">>]),
     price |-> Some(Cents(50)), quantity |-> 1]

\* A line sent without its price.
LineNoPrice ==
    [pizzaDetails |-> Some([base |-> Some("Traditional"), sauce |-> NULL,
                            cheese |-> NULL, toppings |-> <<>>]),
     price |-> NULL, quantity |-> 1]

CartLines == {LineTraditional, LineThinCrust, LineNoPrice}

Carts == UNION {[1..n -> CartLines] : n \in 0..MaxLines}

\* Every cart with a total, and one request without its total.
OrderBodies ==
    {[totalAmount |-> Some(Cents(100)), deliveryAddress |-> "12 Main Street", items |-> c] :
        c \in Carts}
    \cup {[totalAmount |-> NULL, deliveryAddress |-> "12 Main Street", items |-> <<>>]}

MaxCartOrders == 1   \* orders placed while the inventory is exercised

OrderNext ==
    \/ /\ Len(orders) < MaxCartOrders
       /\ \E s \in {"alice", Anon}, b \in OrderBodies : PlaceOrderStart(1, s, b)
    \/ PlaceOrderCreateOrder(1)
    \/ PlaceOrderCreateItem(1)
    \/ PlaceOrderGetItems(1)
    \/ PlaceOrderNotify(1)
    \/ \E s \in {"admin", "alice"}, i \in {"Traditional", "Marinara", "Calzone"},
          k \in {0 - 1, 0, 10, 20} : UpdateStockStart(1, s, i, k)
    \/ UpdateStockUpdate(1)
    \/ \E s \in {"admin", "alice"} : LowStockStart(1, s)
    \/ LowStockQuery(1)
    \/ \E s \in {"admin", "alice", Anon}, k \in {"base", "sauce"} : GetCatalogStart(1, s, k)
    \/ GetCatalogQuery(1)

SpecOrder == Init /\ [][OrderNext]_vars

(***************************************************************************)
(* Claims about order placement and inventory.                             *)
(***************************************************************************)
\* The catalog items a cart line refers to.
Referenced(line) ==
    IF IsNull(line.pizzaDetails) THEN {}
    ELSE LET d == Val(line.pizzaDetails)
         IN  {Val(o) : o \in {x \in {d.base, d.sauce, d.cheese} : ~IsNull(x)}}
                \cup {d.toppings[k] : k \in DOMAIN d.toppings}

\* The quantity of an item that the lines of a cart ask for.
RECURSIVE Demand(_, _)
Demand(items, i) ==
    IF items = <<>> THEN 0
    ELSE (IF i \in Referenced(Head(items)) THEN Head(items).quantity ELSE 0)
            + Demand(Tail(items), i)

Placed(r) == pc[r] = "done" /\ req[r].kind = "placeOrder" /\ resp[r].status = 201

\* C4: a successful order placement lowers the stock of every item its cart
\* lines refer to by the lines' quantities, summed, and of no other item.
C4_StockReduced ==
    \A r \in Slots :
        Placed(r) =>
            \A i \in DOMAIN catalog :
                catalog[i].stock = snap[r].stock[i] - Demand(req[r].body.items, i)

\* C5: a successful order placement creates one order row owned by the session
\* user and one order-item row per submitted cart line, each referring to the
\* new order, and answers with as many items as lines were submitted.
C5_OneItemPerLine ==
    \A r \in Slots :
        Placed(r) =>
            /\ Len(orders) = snap[r].orders + 1
            /\ orders[resp[r].order.id].userId = req[r].session
            /\ Len(orderItems) = snap[r].orderItems + Len(req[r].body.items)
            /\ \A k \in (snap[r].orderItems + 1)..Len(orderItems) :
                  orderItems[k].orderId = resp[r].order.id
            /\ Len(resp[r].items) = Len(req[r].body.items)

\* C6: the low-stock list holds exactly the items whose stock is at or below
\* their threshold.
C6_LowStockAtOrBelow ==
    \A r \in Slots :
        (pc[r] = "done" /\ req[r].kind = "lowStock" /\ resp[r].status = 200) =>
            resp[r].lowStockItems =
                {i \in DOMAIN catalog : catalog[i].stock <= catalog[i].threshold}

\* C19: a catalog read by anyone who is not a signed-in admin returns the
\* in-stock rows of the table and never a row whose stock is zero or less; a
\* signed-in admin gets every row.
C19_OutOfStockHidden ==
    [][\A r \in Slots :
          (pc[r] = "gc_query" /\ pc'[r] = "done") =>
              LET rows  == {i \in DOMAIN catalog : catalog[i].kind = req[r].table}
                  names == {item.name : item \in resp'[r].items}
                  admin == req[r].session \in Users /\ users[req[r].session].isAdmin
              IN  /\ resp'[r].status = 200
                  /\ \A item \in resp'[r].items :
                        item.name \in rows /\ item.stock = catalog[item.name].stock
                  /\ admin => names = rows
                  /\ ~admin => names = {i \in rows : catalog[i].stock > 0}
                  /\ ~admin => \A item \in resp'[r].items : item.stock > 0]_vars

\* After the admin set an item's stock to zero, a read of its table by a
\* customer or an anonymous caller came back with other rows and without it.
C19_Witness ==
    \E r \in Slots :
        /\ pc[r] = "done" /\ req[r].kind = "getCatalog" /\ resp[r].status = 200
        /\ \E i \in DOMAIN catalog :
              /\ catalog[i].kind = req[r].table /\ catalog[i].stock = 0
              /\ req[r].session \notin Admins
              /\ i \notin {item.name : item \in resp[r].items}
              /\ resp[r].items # {}

(***************************************************************************)
(* Payments and loyalty points: storage.                                   *)
(***************************************************************************)
getUser(id) == IF id \in DOMAIN users THEN Some(users[id]) ELSE NULL

\* (a slip: the points taken away instead of added, the floor left out)
storedPointsSubtracting(current, points) == current - points

\* updateUserLoyaltyPoints, the value written: the points are added to the
\* balance read, and the sum is floored at zero.
storedPoints(current, points) ==
    LET newPoints == current + points
    IN  IF newPoints >= 0 THEN newPoints ELSE 0

updateUserLoyaltyPointsWrite(id, current, points) ==
    [users EXCEPT ![id].loyaltyPoints = storedPoints(current, points)]

updateOrderPayment(id, paymentId, paymentStatus) ==
    [i \in DOMAIN orders |->
        IF i = id
        THEN [orders[i] EXCEPT !.paymentId = Some(paymentId),
                               !.paymentStatus = paymentStatus]
        ELSE orders[i]]

updateOrderStatus(id, status) ==
    [i \in DOMAIN orders |->
        IF i = id THEN [orders[i] EXCEPT !.status = status] ELSE orders[i]]

updateOrderLoyaltyDiscount(id, loyaltyDiscountAmount, loyaltyPointsRedeemed) ==
    [i \in DOMAIN orders |->
        IF i = id
        THEN [orders[i] EXCEPT !.loyaltyDiscountAmount = loyaltyDiscountAmount,
                               !.loyaltyPointsRedeemed = loyaltyPointsRedeemed]
        ELSE orders[i]]

\* What a payment or redemption request saw on arrival.
Seen == [points |-> [u \in Users |-> users[u].loyaltyPoints]]

(***************************************************************************)
(* POST /api/process-payment.                                              *)
(***************************************************************************)
\* Math.floor(amount / 10), the amount in hundredths.
earnedPoints(amount) == amount \div Cents(10)

ProcessPaymentStart(r, s, orderId, amount) ==
    /\ s \in Users => users[s].loyaltyPoints < MaxPoints
    /\ Arrive(r, [kind |-> "processPayment", session |-> s, orderId |-> orderId,
                  amount |-> amount], Seen)
    /\ IF ~ensureAuthenticated(s)
       THEN Respond(r, Status(401))
       ELSE IF ~(amount > 0)
       THEN Respond(r, Status(400))
       ELSE Goto(r, "pp_getOrder", <<>>)
    /\ UNCHANGED <<now, dbVars>>

ProcessPaymentGetOrder(r) ==
    /\ pc[r] = "pp_getOrder"
    /\ LET order == getOrder(req[r].orderId)
       IN  IF IsNull(order)
           THEN Respond(r, Status(404))
           ELSE IF Val(order).userId # req[r].session
           THEN Respond(r, Status(403))
           ELSE IF req[r].amount # Val(order).totalAmount
           THEN Respond(r, Status(400))
           ELSE Goto(r, "pp_updateOrder", <<>>)
    /\ UNCHANGED <<now, dbVars, req, snap>>

ProcessPaymentUpdateOrder(r) ==
    /\ pc[r] = "pp_updateOrder"
    /\ orders' = updateOrderPayment(req[r].orderId, "pay_generated", "completed")
    /\ Goto(r, "pp_readUser", [updatedOrder |-> orders'[req[r].orderId]])
    /\ UNCHANGED <<now, extVars, users, promotions, orderItems, catalog, notifications, req, snap>>

\* updateUserLoyaltyPoints, first half: the balance is read.
ProcessPaymentReadUser(r) ==
    /\ pc[r] = "pp_readUser"
    /\ Goto(r, "pp_writeUser",
            [updatedOrder |-> loc[r].updatedOrder,
             current |-> users[req[r].session].loyaltyPoints])
    /\ UNCHANGED <<now, dbVars, req, snap>>

\* updateUserLoyaltyPoints, second half: the new balance is written.
ProcessPaymentWriteUser(r) ==
    /\ pc[r] = "pp_writeUser"
    /\ users' = updateUserLoyaltyPointsWrite(req[r].session, loc[r].current,
                                             earnedPoints(req[r].amount))
    /\ Respond(r, [status |-> 200, paymentStatus |-> "completed",
                   order |-> loc[r].updatedOrder])
    /\ UNCHANGED <<now, extVars, promotions, orders, orderItems, catalog, notifications, req, snap>>

(***************************************************************************)
(* POST /api/payment, registered by registerRoutes alone.                  *)
(***************************************************************************)
PaymentStart(r, s, orderId) ==
    /\ Dispatch("POST /api/payment") = "registerRoutes"
    /\ Arrive(r, [kind |-> "payment", session |-> s, orderId |-> orderId], Seen)
    /\ IF ~isAuthenticated(s)
       THEN Respond(r, Status(401))
       ELSE Goto(r, "pay_updatePayment", <<>>)
    /\ UNCHANGED <<now, dbVars>>

PaymentUpdatePayment(r) ==
    /\ pc[r] = "pay_updatePayment"
    /\ orders' = updateOrderPayment(req[r].orderId, "pay_client", "completed")
    /\ Goto(r, "pay_updateStatus", <<>>)
    /\ UNCHANGED <<now, extVars, users, promotions, orderItems, catalog, notifications, req, snap>>

PaymentUpdateStatus(r) ==
    /\ pc[r] = "pay_updateStatus"
    /\ orders' = updateOrderStatus(req[r].orderId, "received")
    /\ IF req[r].orderId \notin DOMAIN orders
       THEN Respond(r, Status(404))
       ELSE Respond(r, [status |-> 200, order |-> orders'[req[r].orderId]])
    /\ UNCHANGED <<now, extVars, users, promotions, orderItems, catalog, notifications, req, snap>>

(***************************************************************************)
(* POST /api/razorpay-webhook.                                             *)
(***************************************************************************)
WebhookStart(r, event, orderId) ==
    /\ Arrive(r, [kind |-> "webhook", event |-> event, orderId |-> orderId], Seen)
    /\ IF event = "payment.captured"
       THEN Goto(r, "wh_update", [paymentStatus |-> "completed"])
       ELSE IF event = "payment.failed"
       THEN Goto(r, "wh_update", [paymentStatus |-> "failed"])
       ELSE Respond(r, Status(200))
    /\ UNCHANGED <<now, dbVars>>

WebhookUpdate(r) ==
    /\ pc[r] = "wh_update"
    /\ orders' = updateOrderPayment(req[r].orderId, "pay_hook", loc[r].paymentStatus)
    /\ Respond(r, Status(200))
    /\ UNCHANGED <<now, extVars, users, promotions, orderItems, catalog, notifications, req, snap>>

(***************************************************************************)
(* POST /api/loyalty-points/redeem.                                        *)
(***************************************************************************)
\* (a slip: the balance check off by one)
insufficientPointsOffByOne(user, points) == user.loyaltyPoints + 1 < points

\* if (user.loyaltyPoints < points): the request asks for more than there is.
insufficientPoints(user, points) == user.loyaltyPoints < points

\* points * 0.1 currency units, in hundredths, and no more than the order total.
actualDiscount(points, order) == Min(points * 10, order.totalAmount)

RedeemStart(r, s, points, orderId) ==
    /\ s \in Users => users[s].loyaltyPoints < MaxPoints
    /\ Arrive(r, [kind |-> "redeem", session |-> s, points |-> points,
                  orderId |-> orderId], Seen)
    /\ IF ~ensureAuthenticated(s)
       THEN Respond(r, Status(401))
       ELSE IF ~(points > 0 /\ orderId > 0)
       THEN Respond(r, Status(400))
       ELSE Goto(r, "rd_getUser", <<>>)
    /\ UNCHANGED <<now, dbVars>>

RedeemGetUser(r) ==
    /\ pc[r] = "rd_getUser"
    /\ LET user == getUser(req[r].session)
       IN  IF IsNull(user)
           THEN Respond(r, Status(404))
           ELSE IF insufficientPoints(Val(user), req[r].points)
           THEN Respond(r, Status(400))
           ELSE Goto(r, "rd_getOrder", [user |-> Val(user)])
    /\ UNCHANGED <<now, dbVars, req, snap>>

RedeemGetOrder(r) ==
    /\ pc[r] = "rd_getOrder"
    /\ LET order == getOrder(req[r].orderId)
       IN  IF IsNull(order)
           THEN Respond(r, Status(404))
           ELSE IF Val(order).userId # req[r].session
           THEN Respond(r, Status(403))
           ELSE Goto(r, "rd_updateOrder",
                     [user |-> loc[r].user,
                      actualDiscount |-> actualDiscount(req[r].points, Val(order))])
    /\ UNCHANGED <<now, dbVars, req, snap>>

RedeemUpdateOrder(r) ==
    /\ pc[r] = "rd_updateOrder"
    /\ orders' = updateOrderLoyaltyDiscount(req[r].orderId, loc[r].actualDiscount,
                                            req[r].points)
    /\ Goto(r, "rd_readUser",
            [user |-> loc[r].user, actualDiscount |-> loc[r].actualDiscount,
             updatedOrder |-> orders'[req[r].orderId]])
    /\ UNCHANGED <<now, extVars, users, promotions, orderItems, catalog, notifications, req, snap>>

\* updateUserLoyaltyPoints, first half: the balance is read again.
RedeemReadUser(r) ==
    /\ pc[r] = "rd_readUser"
    /\ Goto(r, "rd_writeUser",
            [user |-> loc[r].user, actualDiscount |-> loc[r].actualDiscount,
             updatedOrder |-> loc[r].updatedOrder,
             current |-> users[req[r].session].loyaltyPoints])
    /\ UNCHANGED <<now, dbVars, req, snap>>

\* updateUserLoyaltyPoints, second half, called with
\* user.loyaltyPoints - points as its points.
RedeemWriteUser(r) ==
    /\ pc[r] = "rd_writeUser"
    /\ users' = updateUserLoyaltyPointsWrite(req[r].session, loc[r].current,
                                             loc[r].user.loyaltyPoints - req[r].points)
    /\ Goto(r, "rd_notify",
            [actualDiscount |-> loc[r].actualDiscount,
             updatedOrder |-> loc[r].updatedOrder,
             updatedUser |-> users'[req[r].session]])
    /\ UNCHANGED <<now, extVars, promotions, orders, orderItems, catalog, notifications, req, snap>>

RedeemNotify(r) ==
    /\ pc[r] = "rd_notify"
    /\ notifications' = createNotification([userId |-> req[r].session,
                                            type |-> "points_redeemed"])
    /\ Respond(r, [status |-> 200, order |-> loc[r].updatedOrder,
                   discountAmount |-> loc[r].actualDiscount,
                   finalAmount |-> loc[r].updatedOrder.totalAmount - loc[r].actualDiscount,
                   remainingPoints |-> loc[r].updatedUser.loyaltyPoints])
    /\ UNCHANGED <<now, extVars, users, promotions, orders, orderItems, catalog, req, snap>>

(***************************************************************************)
(* Payments and loyalty points, one request at a time.                     *)
(***************************************************************************)
\* An order of 97.00 and one of 0.50.
LoyaltyOrderBodies ==
    {[totalAmount |-> Some(a), deliveryAddress |-> "12 Main Street", items |-> <<>>] :
        a \in {Cents(97), 50}}

RedeemPoints == {0, 3, 6, 10}

PlaceOrderSteps(r) ==
    \/ PlaceOrderCreateOrder(r)
    \/ PlaceOrderGetItems(r)
    \/ PlaceOrderNotify(r)

ProcessPaymentSteps(r) ==
    \/ ProcessPaymentGetOrder(r)
    \/ ProcessPaymentUpdateOrder(r)
    \/ ProcessPaymentReadUser(r)
    \/ ProcessPaymentWriteUser(r)

RedeemSteps(r) ==
    \/ RedeemGetUser(r)
    \/ RedeemGetOrder(r)
    \/ RedeemUpdateOrder(r)
    \/ RedeemReadUser(r)
    \/ RedeemWriteUser(r)
    \/ RedeemNotify(r)

LoyaltySeqNext ==
    \/ \E b \in LoyaltyOrderBodies : PlaceOrderStart(1, "alice", b)
    \/ PlaceOrderSteps(1)
    \/ \E s \in {"alice", "bob", Anon}, o \in 1..MaxOrders, a \in {0, Cents(97), 50} :
          ProcessPaymentStart(1, s, o, a)
    \/ ProcessPaymentSteps(1)
    \/ \E s \in {"alice", "bob", Anon}, p \in RedeemPoints, o \in 1..MaxOrders :
          RedeemStart(1, s, p, o)
    \/ RedeemSteps(1)
    \/ \E s \in {"alice", Anon}, o \in 1..MaxOrders : PaymentStart(1, s, o)
    \/ PaymentUpdatePayment(1)
    \/ PaymentUpdateStatus(1)
    \/ \E e \in {"payment.captured", "payment.failed", "order.paid"}, o \in 1..MaxOrders :
          WebhookStart(1, e, o)
    \/ WebhookUpdate(1)

SpecLoyaltySeq == Init /\ [][LoyaltySeqNext]_vars

(***************************************************************************)
(* Payments and redemptions of two requests interleaved at their awaits.   *)
(***************************************************************************)
MaxPaidOrders == 1   \* orders placed while two requests interleave

LoyaltyNext ==
    \/ /\ Len(orders) < MaxPaidOrders
       /\ PlaceOrderStart(1, "alice", CHOOSE b \in LoyaltyOrderBodies :
                                          b.totalAmount = Some(Cents(97)))
    \/ PlaceOrderSteps(1)
    \/ \E r \in Slots : ProcessPaymentStart(r, "alice", 1, Cents(97))
    \/ \E r \in Slots : ProcessPaymentSteps(r)
    \/ \E r \in Slots, p \in {3, 6, 10} : RedeemStart(r, "alice", p, 1)
    \/ \E r \in Slots : RedeemSteps(r)

SpecLoyalty == Init /\ [][LoyaltyNext]_vars

(***************************************************************************)
(* Claims about payments and loyalty points.                               *)
(***************************************************************************)
\* The request has marked the payment of an existing order as completed.
Completed(r) ==
    /\ pc[r] = "done"
    /\ resp[r].status = 200
    /\ req[r].orderId \in DOMAIN orders
    /\ \/ req[r].kind \in {"processPayment", "payment"}
       \/ req[r].kind = "webhook" /\ req[r].event = "payment.captured"

\* Who paid: the session user, or the order's owner when the processor reports.
Payer(r) ==
    IF req[r].kind = "webhook" THEN orders[req[r].orderId].userId ELSE req[r].session

\* C7: whichever endpoint marks an order's payment as completed, the paying
\* user's balance goes up by floor(a / 10) for the amount a paid.
C7_PointsCredited ==
    \A r \in Slots :
        Completed(r) =>
            users[Payer(r)].loyaltyPoints =
                snap[r].points[Payer(r)] + orders[req[r].orderId].totalAmount \div Cents(10)

\* The step on which a redemption that asks for more points than the user has
\* leaves the balance check.
C8_Reject(r) ==
    (/\ pc[r] = "rd_getUser"
     /\ pc'[r] # "rd_getUser"
     /\ req[r].points > users[req[r].session].loyaltyPoints)
    => (/\ pc'[r] = "done"
        /\ resp'[r].status = 400
        /\ users' = users
        /\ orders' = orders)

\* C8: a redemption of more points than the user's balance is answered 400
\* and changes neither the user's balance nor any order.
C8_InsufficientRejected == [][\A r \in Slots : C8_Reject(r)]_vars

C8_Witness ==
    \E r \in Slots :
        /\ pc[r] = "done"
        /\ req[r].kind = "redeem"
        /\ resp[r].status = 400
        /\ users[req[r].session].loyaltyPoints > 0
        /\ req[r].points > users[req[r].session].loyaltyPoints
        /\ orders[req[r].orderId].loyaltyPointsRedeemed = 0

\* C9: after a successful redemption of p points from a balance b the stored
\* balance is b - p, and so is the remainingPoints of the response.
C9_BalanceReduced ==
    \A r \in Slots :
        (pc[r] = "done" /\ req[r].kind = "redeem" /\ resp[r].status = 200) =>
            /\ users[req[r].session].loyaltyPoints =
                  snap[r].points[req[r].session] - req[r].points
            /\ resp[r].remainingPoints = snap[r].points[req[r].session] - req[r].points

\* C10: however payment credits and redemptions interleave, every user's
\* balance is a non-negative integer.
C10_BalanceNonNegative == \A u \in Users : users[u].loyaltyPoints \in Nat

\* A credit and a redemption that arrived on the same balance have both gone
\* through.
C10_Witness ==
    \E r, q \in Slots :
        /\ pc[r] = "done" /\ req[r].kind = "redeem" /\ resp[r].status = 200
        /\ pc[q] = "done" /\ req[q].kind = "processPayment" /\ resp[q].status = 200
        /\ snap[r].points = snap[q].points
        /\ users["alice"].loyaltyPoints > 0

\* C11: redemptions of one user that arrived on the same balance never have
\* more points accepted between them than that balance held.
C11_NoDoubleSpend ==
    \A r, q \in Slots :
        (/\ r # q
         /\ pc[r] = "done" /\ req[r].kind = "redeem" /\ resp[r].status = 200
         /\ pc[q] = "done" /\ req[q].kind = "redeem" /\ resp[q].status = 200
         /\ req[r].session = req[q].session
         /\ snap[r].points = snap[q].points)
        => req[r].points + req[q].points <= snap[r].points[req[r].session]

(***************************************************************************)
(* Order fulfilment: storage.                                              *)
(***************************************************************************)
orderStatusEnum ==
    {"pending", "received", "preparing", "cooking", "quality_check", "packed",
     "out_for_delivery", "delivered", "cancelled"}

updateOrderTracking(id, trackingUrl, estimatedDeliveryTime) ==
    [i \in DOMAIN orders |->
        IF i = id
        THEN [orders[i] EXCEPT !.trackingUrl = Some(trackingUrl),
                               !.estimatedDeliveryTime = Some(estimatedDeliveryTime)]
        ELSE orders[i]]

setOrderDelivered(id) ==
    [i \in DOMAIN orders |->
        IF i = id
        THEN [orders[i] EXCEPT !.status = "delivered",
                               !.actualDeliveryTime = Some(now)]
        ELSE orders[i]]

createReview(review) ==
    Append(reviews,
           [id |-> Len(reviews) + 1,
            userId |-> review.userId,
            orderId |-> review.orderId,
            rating |-> review.rating])

(***************************************************************************)
(* PATCH /api/admin/orders/:id/status as registerOrderRoutes serves it.    *)
(***************************************************************************)
AdminStatusStart(r, s, orderId, status) ==
    /\ Dispatch("PATCH /api/admin/orders/:id/status") = "registerOrderRoutes"
    /\ Arrive(r, [kind |-> "adminStatus", session |-> s, orderId |-> orderId,
                  status |-> status], <<>>)
    /\ IF ~ensureAdmin(s)
       THEN Respond(r, Status(403))
       ELSE IF status \notin orderStatusEnum
       THEN Respond(r, Status(400))
       ELSE Goto(r, "as_getOrder", <<>>)
    /\ UNCHANGED <<now, dbVars>>

AdminStatusGetOrder(r) ==
    /\ pc[r] = "as_getOrder"
    /\ LET order == getOrder(req[r].orderId)
       IN  IF IsNull(order)
           THEN Respond(r, Status(404))
           ELSE Goto(r, "as_update", [order |-> Val(order)])
    /\ UNCHANGED <<now, dbVars, req, snap>>

AdminStatusUpdate(r) ==
    /\ pc[r] = "as_update"
    /\ orders' = updateOrderStatus(req[r].orderId, req[r].status)
    /\ Goto(r, "as_notify", [order |-> loc[r].order,
                             updatedOrder |-> orders'[req[r].orderId]])
    /\ UNCHANGED <<now, extVars, users, promotions, orderItems, catalog, notifications,
                   req, snap>>

AdminStatusNotify(r) ==
    /\ pc[r] = "as_notify"
    /\ notifications' = createNotification([userId |-> loc[r].order.userId,
                                            type |-> "order_updated"])
    /\ Respond(r, [status |-> 200, order |-> loc[r].updatedOrder])
    /\ UNCHANGED <<now, extVars, users, promotions, orders, orderItems, catalog, req, snap>>

(***************************************************************************)
(* PATCH /api/admin/orders/:id/tracking.                                   *)
(***************************************************************************)
TrackingStart(r, s, orderId, trackingUrl, estimatedDeliveryTime) ==
    /\ Arrive(r, [kind |-> "adminTracking", session |-> s, orderId |-> orderId,
                  trackingUrl |-> trackingUrl,
                  estimatedDeliveryTime |-> estimatedDeliveryTime], <<>>)
    /\ IF ~ensureAdmin(s)
       THEN Respond(r, Status(403))
       ELSE IF trackingUrl = ""
       THEN Respond(r, Status(400))
       ELSE Goto(r, "at_getOrder", <<>>)
    /\ UNCHANGED <<now, dbVars>>

TrackingGetOrder(r) ==
    /\ pc[r] = "at_getOrder"
    /\ LET order == getOrder(req[r].orderId)
       IN  IF IsNull(order)
           THEN Respond(r, Status(404))
           ELSE Goto(r, "at_update", [order |-> Val(order)])
    /\ UNCHANGED <<now, dbVars, req, snap>>

TrackingUpdate(r) ==
    /\ pc[r] = "at_update"
    /\ orders' = updateOrderTracking(req[r].orderId, req[r].trackingUrl,
                                     req[r].estimatedDeliveryTime)
    /\ Goto(r, "at_notify", [order |-> loc[r].order,
                             updatedOrder |-> orders'[req[r].orderId]])
    /\ UNCHANGED <<now, extVars, users, promotions, orderItems, catalog, notifications,
                   req, snap>>

TrackingNotify(r) ==
    /\ pc[r] = "at_notify"
    /\ notifications' = createNotification([userId |-> loc[r].order.userId,
                                            type |-> "order_tracking"])
    /\ Respond(r, [status |-> 200, order |-> loc[r].updatedOrder])
    /\ UNCHANGED <<now, extVars, users, promotions, orders, orderItems, catalog, req, snap>>

(***************************************************************************)
(* POST /api/admin/orders/:id/delivered.                                   *)
(***************************************************************************)
DeliveredStart(r, s, orderId) ==
    /\ Arrive(r, [kind |-> "adminDelivered", session |-> s, orderId |-> orderId], <<>>)
    /\ IF ~ensureAdmin(s)
       THEN Respond(r, Status(403))
       ELSE Goto(r, "ad_getOrder", <<>>)
    /\ UNCHANGED <<now, dbVars>>

DeliveredGetOrder(r) ==
    /\ pc[r] = "ad_getOrder"
    /\ LET order == getOrder(req[r].orderId)
       IN  IF IsNull(order)
           THEN Respond(r, Status(404))
           ELSE Goto(r, "ad_update", [order |-> Val(order)])
    /\ UNCHANGED <<now, dbVars, req, snap>>

DeliveredUpdate(r) ==
    /\ pc[r] = "ad_update"
    /\ orders' = setOrderDelivered(req[r].orderId)
    /\ Goto(r, "ad_notify", [order |-> loc[r].order,
                             updatedOrder |-> orders'[req[r].orderId]])
    /\ UNCHANGED <<now, extVars, users, promotions, orderItems, catalog, notifications,
                   req, snap>>

DeliveredNotify(r) ==
    /\ pc[r] = "ad_notify"
    /\ notifications' = createNotification([userId |-> loc[r].order.userId,
                                            type |-> "order_delivered"])
    /\ Respond(r, [status |-> 200, order |-> loc[r].updatedOrder])
    /\ UNCHANGED <<now, extVars, users, promotions, orders, orderItems, catalog, req, snap>>

(***************************************************************************)
(* POST /api/orders/:id/reviews.                                           *)
(***************************************************************************)
ReviewStart(r, s, orderId, rating) ==
    /\ Arrive(r, [kind |-> "review", session |-> s, orderId |-> orderId,
                  rating |-> rating], <<>>)
    /\ IF ~ensureAuthenticated(s)
       THEN Respond(r, Status(401))
       ELSE Goto(r, "rv_getOrder", <<>>)
    /\ UNCHANGED <<now, dbVars>>

ReviewGetOrder(r) ==
    /\ pc[r] = "rv_getOrder"
    /\ LET order == getOrder(req[r].orderId)
       IN  IF IsNull(order)
           THEN Respond(r, Status(404))
           ELSE IF Val(order).userId # req[r].session
           THEN Respond(r, Status(403))
           ELSE IF Val(order).status # "delivered"
           THEN Respond(r, Status(400))
           ELSE IF ~(req[r].rating >= 1 /\ req[r].rating <= 5)
           THEN Respond(r, Status(400))
           ELSE Goto(r, "rv_create", <<>>)
    /\ UNCHANGED <<now, dbVars, req, snap>>

ReviewCreate(r) ==
    /\ pc[r] = "rv_create"
    /\ reviews' = createReview([userId |-> req[r].session, orderId |-> req[r].orderId,
                                rating |-> req[r].rating])
    /\ Respond(r, [status |-> 201, review |-> reviews'[Len(reviews')]])
    /\ UNCHANGED <<now, users, promotions, orders, orderItems, catalog, notifications,
                   plans, subscriptions, paymentMethods, socketVars, clientVars,
                   req, snap>>

(***************************************************************************)
(* An order from placement to delivery and review, one request at a time:  *)
(* the customer places, pays, applies a promotion, redeems and reviews;    *)
(* the admin (and whoever tries the admin routes) updates status and       *)
(* tracking and marks delivery; the payment processor reports.             *)
(***************************************************************************)
MaxDeliveredOrders == 1   \* orders placed while fulfilment is exercised

DeliveryOrderBody ==
    [totalAmount |-> Some(Cents(97)), deliveryAddress |-> "12 Main Street", items |-> <<>>]

MaxNotices == 2   \* notifications persisted before new requests stop
MaxReviews == 1   \* reviews written before new requests stop

DeliveryStarts ==
    \/ /\ Len(orders) < MaxDeliveredOrders
       /\ PlaceOrderStart(1, "alice", DeliveryOrderBody)
    \/ \E s \in {"admin", "alice", Anon}, o \in 1..MaxDeliveredOrders,
          st \in {"delivered", "preparing", "eaten"} : AdminStatusStart(1, s, o, st)
    \/ \E s \in {"admin", "alice"}, o \in 1..MaxDeliveredOrders, u \in {"", "https://track"} :
          TrackingStart(1, s, o, u, now + 1)
    \/ \E s \in {"admin", "alice", Anon}, o \in 1..MaxDeliveredOrders : DeliveredStart(1, s, o)
    \/ \E o \in 1..MaxDeliveredOrders : ProcessPaymentStart(1, "alice", o, Cents(97))
    \/ \E o \in 1..MaxDeliveredOrders : RedeemStart(1, "alice", 3, o)
    \/ /\ Len(promotions) < 1
       /\ CreatePromotionStart(1, "admin", BasePromotion)
    \/ \E o \in 1..MaxDeliveredOrders : ApplyPromotionStart(1, "alice", o, "SAVE20")

\* The requests that persist no notification.
DeliveryQuietStarts ==
    \/ /\ Len(reviews) < MaxReviews
       /\ \E s \in {"alice", "bob", Anon}, o \in 1..MaxDeliveredOrders, k \in {0, 5} :
             ReviewStart(1, s, o, k)
    \/ \E o \in 1..MaxDeliveredOrders : PaymentStart(1, "alice", o)
    \/ \E o \in 1..MaxDeliveredOrders : WebhookStart(1, "payment.failed", o)

DeliveryNext ==
    \/ /\ Len(notifications) < MaxNotices
       /\ DeliveryStarts
    \/ DeliveryQuietStarts
    \/ PlaceOrderSteps(1)
    \/ AdminStatusGetOrder(1)
    \/ AdminStatusUpdate(1)
    \/ AdminStatusNotify(1)
    \/ TrackingGetOrder(1)
    \/ TrackingUpdate(1)
    \/ TrackingNotify(1)
    \/ DeliveredGetOrder(1)
    \/ DeliveredUpdate(1)
    \/ DeliveredNotify(1)
    \/ ReviewGetOrder(1)
    \/ ReviewCreate(1)
    \/ PaymentUpdatePayment(1)
    \/ PaymentUpdateStatus(1)
    \/ ProcessPaymentSteps(1)
    \/ WebhookUpdate(1)
    \/ RedeemSteps(1)
    \/ CreatePromotionInsert(1)
    \/ ApplyPromotionGetOrder(1)
    \/ ApplyPromotionValidate(1)
    \/ ApplyPromotionUpdateOrder(1)
    \/ ApplyPromotionIncrementLookup(1)

SpecDelivery == Init /\ [][DeliveryNext]_vars

(***************************************************************************)
(* Claims about delivery.                                                  *)
(***************************************************************************)
\* C12: an order whose status is 'delivered' has its actualDeliveryTime set,
\* whichever admin endpoint delivered it.
C12_DeliveredHasTime ==
    \A i \in DOMAIN orders :
        orders[i].status = "delivered" => ~IsNull(orders[i].actualDeliveryTime)

\* A request of an admin session is writing an order's status.
AdminWritesStatus ==
    \E r \in Slots :
        /\ pc[r] \in {"as_update", "ad_update"}
        /\ pc'[r] # pc[r]
        /\ req[r].session \in Users
        /\ users[req[r].session].isAdmin

BecomesDelivered ==
    \/ \E i \in DOMAIN orders :
          orders[i].status # "delivered" /\ orders'[i].status = "delivered"
    \/ \E i \in DOMAIN orders' \ DOMAIN orders : orders'[i].status = "delivered"

\* C13: an order becomes 'delivered' only on the status update or the delivered
\* endpoint of an admin session; no request of another session delivers it.
C13_OnlyAdminDelivers == [][BecomesDelivered => AdminWritesStatus]_vars

\* A customer who has paid tried both admin endpoints' way in and was refused.
C13_Witness ==
    \E r \in Slots :
        /\ pc[r] = "done"
        /\ req[r].kind \in {"adminStatus", "adminDelivered"}
        /\ req[r].session = "alice"
        /\ resp[r].status = 403
        /\ req[r].orderId \in DOMAIN orders
        /\ orders[req[r].orderId].status = "received"

DeliveryFields(order) ==
    <<order.status, order.totalAmount, order.paymentId, order.paymentStatus,
      order.deliveryAddress, order.actualDeliveryTime, order.estimatedDeliveryTime,
      order.trackingUrl>>

\* C14: once an order is 'delivered', no later operation changes its status,
\* amount, payment or delivery fields.
C14_DeliveredFrozen ==
    [][\A i \in DOMAIN orders :
          orders[i].status = "delivered" =>
              DeliveryFields(orders'[i]) = DeliveryFields(orders[i])]_vars

(***************************************************************************)
(* Subscriptions: storage.                                                 *)
(***************************************************************************)
getSubscriptionPlan(id) == IF id \in DOMAIN plans THEN Some(plans[id]) ELSE NULL

createSubscriptionPlan(plan) ==
    Append(plans, [id |-> Len(plans) + 1, intervalDays |-> plan.intervalDays,
                   isActive |-> TRUE])

toggleSubscriptionPlanStatus(id, plan) == [plans EXCEPT ![id].isActive = ~plan.isActive]

getUserPaymentMethod(id) ==
    IF id \in DOMAIN paymentMethods THEN Some(paymentMethods[id]) ELSE NULL

createPaymentMethod(paymentMethod) ==
    Append(paymentMethods, [id |-> Len(paymentMethods) + 1,
                            userId |-> paymentMethod.userId])

getUserSubscription(id) ==
    IF id \in DOMAIN subscriptions THEN Some(subscriptions[id]) ELSE NULL

\* The row is stamped with the clock: start now, active, next delivery one
\* interval from now.
createUserSubscription(subscription) ==
    Append(subscriptions,
           [id |-> Len(subscriptions) + 1,
            userId |-> subscription.userId,
            planId |-> subscription.planId,
            paymentMethodId |-> subscription.paymentMethodId,
            status |-> "active",
            startDate |-> now,
            nextDeliveryDate |-> now + subscription.billingCycleInDays,
            cancelDate |-> NULL])

cancelUserSubscription(id) ==
    [i \in DOMAIN subscriptions |->
        IF i = id
        THEN [subscriptions[i] EXCEPT !.status = "cancelled", !.cancelDate = Some(now)]
        ELSE subscriptions[i]]

\* (a slip: pausing also pushes the next delivery back)
pauseUserSubscriptionMovingDate(id) ==
    [i \in DOMAIN subscriptions |->
        IF i = id
        THEN [subscriptions[i] EXCEPT !.status = "paused",
                                      !.nextDeliveryDate = @ + 1]
        ELSE subscriptions[i]]

pauseUserSubscription(id) ==
    [i \in DOMAIN subscriptions |->
        IF i = id THEN [subscriptions[i] EXCEPT !.status = "paused"] ELSE subscriptions[i]]

\* (a slip: resuming leaves the row as it is)
resumeUserSubscriptionNoWrite(id) == subscriptions

resumeUserSubscription(id) ==
    [i \in DOMAIN subscriptions |->
        IF i = id THEN [subscriptions[i] EXCEPT !.status = "active"] ELSE subscriptions[i]]

(***************************************************************************)
(* POST /api/admin/subscription-plans and .../:id/toggle.                  *)
(***************************************************************************)
CreatePlanStart(r, s, plan) ==
    /\ Arrive(r, [kind |-> "createPlan", session |-> s, plan |-> plan], <<>>)
    /\ IF ~ensureAdmin(s)
       THEN Respond(r, Status(403))
       ELSE IF ~(plan.intervalDays > 0)
       THEN Respond(r, Status(400))
       ELSE Goto(r, "pl_create", <<>>)
    /\ UNCHANGED <<now, dbVars>>

CreatePlanInsert(r) ==
    /\ pc[r] = "pl_create"
    /\ plans' = createSubscriptionPlan(req[r].plan)
    /\ Respond(r, [status |-> 201, plan |-> plans'[Len(plans')]])
    /\ UNCHANGED <<now, users, promotions, orders, orderItems, catalog, notifications,
                   reviews, subscriptions, paymentMethods, socketVars, clientVars,
                   req, snap>>

TogglePlanStart(r, s, planId) ==
    /\ Arrive(r, [kind |-> "togglePlan", session |-> s, planId |-> planId], <<>>)
    /\ IF ~ensureAdmin(s)
       THEN Respond(r, Status(403))
       ELSE Goto(r, "tg_getPlan", <<>>)
    /\ UNCHANGED <<now, dbVars>>

TogglePlanGetPlan(r) ==
    /\ pc[r] = "tg_getPlan"
    /\ IF IsNull(getSubscriptionPlan(req[r].planId))
       THEN Respond(r, Status(404))
       ELSE Goto(r, "tg_read", <<>>)
    /\ UNCHANGED <<now, dbVars, req, snap>>

\* toggleSubscriptionPlanStatus, first half: the plan is read again.
TogglePlanRead(r) ==
    /\ pc[r] = "tg_read"
    /\ Goto(r, "tg_write", [plan |-> plans[req[r].planId]])
    /\ UNCHANGED <<now, dbVars, req, snap>>

TogglePlanWrite(r) ==
    /\ pc[r] = "tg_write"
    /\ plans' = toggleSubscriptionPlanStatus(req[r].planId, loc[r].plan)
    /\ Respond(r, [status |-> 200, plan |-> plans'[req[r].planId]])
    /\ UNCHANGED <<now, users, promotions, orders, orderItems, catalog, notifications,
                   reviews, subscriptions, paymentMethods, socketVars, clientVars,
                   req, snap>>

(***************************************************************************)
(* POST /api/payment-methods.                                              *)
(***************************************************************************)
AddPaymentMethodStart(r, s, type) ==
    /\ Arrive(r, [kind |-> "addPaymentMethod", session |-> s, type |-> type], <<>>)
    /\ IF ~ensureAuthenticated(s)
       THEN Respond(r, Status(401))
       ELSE IF type \notin {"credit_card", "debit_card", "paypal", "apple_pay", "google_pay"}
       THEN Respond(r, Status(400))
       ELSE Goto(r, "pm_create", <<>>)
    /\ UNCHANGED <<now, dbVars>>

AddPaymentMethodInsert(r) ==
    /\ pc[r] = "pm_create"
    /\ paymentMethods' = createPaymentMethod([userId |-> req[r].session])
    /\ Respond(r, [status |-> 201, paymentMethod |-> paymentMethods'[Len(paymentMethods')]])
    /\ UNCHANGED <<now, users, promotions, orders, orderItems, catalog, notifications,
                   reviews, plans, subscriptions, socketVars, clientVars,
                   req, snap>>

(***************************************************************************)
(* POST /api/subscribe.                                                    *)
(***************************************************************************)
SubscribeStart(r, s, planId, paymentMethodId) ==
    /\ Arrive(r, [kind |-> "subscribe", session |-> s, planId |-> planId,
                  paymentMethodId |-> paymentMethodId], <<>>)
    /\ IF ~ensureAuthenticated(s)
       THEN Respond(r, Status(401))
       ELSE Goto(r, "sb_getPlan", <<>>)
    /\ UNCHANGED <<now, dbVars>>

SubscribeGetPlan(r) ==
    /\ pc[r] = "sb_getPlan"
    /\ LET plan == getSubscriptionPlan(req[r].planId)
       IN  IF IsNull(plan) \/ ~Val(plan).isActive
           THEN Respond(r, Status(400))
           ELSE Goto(r, "sb_getPaymentMethod", [plan |-> Val(plan)])
    /\ UNCHANGED <<now, dbVars, req, snap>>

SubscribeGetPaymentMethod(r) ==
    /\ pc[r] = "sb_getPaymentMethod"
    /\ LET paymentMethod == getUserPaymentMethod(req[r].paymentMethodId)
       IN  IF IsNull(paymentMethod) \/ Val(paymentMethod).userId # req[r].session
           THEN Respond(r, Status(400))
           ELSE Goto(r, "sb_create", [plan |-> loc[r].plan])
    /\ UNCHANGED <<now, dbVars, req, snap>>

SubscribeCreate(r) ==
    /\ pc[r] = "sb_create"
    /\ subscriptions' = createUserSubscription(
                            [userId |-> req[r].session, planId |-> req[r].planId,
                             paymentMethodId |-> req[r].paymentMethodId,
                             billingCycleInDays |-> loc[r].plan.intervalDays])
    /\ Goto(r, "sb_notify", [subscription |-> subscriptions'[Len(subscriptions')]])
    /\ UNCHANGED <<now, users, promotions, orders, orderItems, catalog, notifications,
                   reviews, plans, paymentMethods, socketVars, clientVars,
                   req, snap>>

SubscribeNotify(r) ==
    /\ pc[r] = "sb_notify"
    /\ notifications' = createNotification([userId |-> req[r].session,
                                            type |-> "subscription_created"])
    /\ Respond(r, [status |-> 201, subscription |-> loc[r].subscription])
    /\ UNCHANGED <<now, extVars, users, promotions, orders, orderItems, catalog, req, snap>>

(***************************************************************************)
(* POST /api/user-subscriptions/:id/cancel, /pause and /resume: the three  *)
(* handlers differ in the storage call and the notification type only.     *)
(***************************************************************************)
SubscriptionOps == {"cancel", "pause", "resume"}

ChangeSubscriptionStart(r, s, op, id) ==
    /\ Arrive(r, [kind |-> op, session |-> s, id |-> id],
                 [subscriptions |-> subscriptions])
    /\ IF ~ensureAuthenticated(s)
       THEN Respond(r, Status(401))
       ELSE Goto(r, "cs_getSubscription", <<>>)
    /\ UNCHANGED <<now, dbVars>>

ChangeSubscriptionGet(r) ==
    /\ pc[r] = "cs_getSubscription"
    /\ LET subscription == getUserSubscription(req[r].id)
       IN  IF IsNull(subscription)
           THEN Respond(r, Status(404))
           ELSE IF Val(subscription).userId # req[r].session
           THEN Respond(r, Status(403))
           ELSE Goto(r, "cs_update", <<>>)
    /\ UNCHANGED <<now, dbVars, req, snap>>

ChangeSubscriptionUpdate(r) ==
    /\ pc[r] = "cs_update"
    /\ subscriptions' = CASE req[r].kind = "cancel" -> cancelUserSubscription(req[r].id)
                          [] req[r].kind = "pause"  -> pauseUserSubscription(req[r].id)
                          [] req[r].kind = "resume" -> resumeUserSubscription(req[r].id)
    /\ Goto(r, "cs_notify", [updatedSubscription |-> subscriptions'[req[r].id]])
    /\ UNCHANGED <<now, users, promotions, orders, orderItems, catalog, notifications,
                   reviews, plans, paymentMethods, socketVars, clientVars,
                   req, snap>>

ChangeSubscriptionNotify(r) ==
    /\ pc[r] = "cs_notify"
    /\ notifications' =
          createNotification(
              [userId |-> req[r].session,
               type |-> CASE req[r].kind = "cancel" -> "subscription_cancelled"
                          [] req[r].kind = "pause"  -> "subscription_paused"
                          [] req[r].kind = "resume" -> "subscription_resumed"])
    /\ Respond(r, [status |-> 200, subscription |-> loc[r].updatedSubscription])
    /\ UNCHANGED <<now, extVars, users, promotions, orders, orderItems, catalog, req, snap>>

(***************************************************************************)
(* Subscriptions, one request at a time: the admin sets up a plan, a       *)
(* customer saves a payment method and subscribes, owners and others       *)
(* cancel, pause and resume, the clock runs.                               *)
(***************************************************************************)
MaxPlans == 1                \* plans the admin creates
MaxPaymentMethods == 1       \* payment methods saved
MaxSubscriptions == 1        \* subscriptions taken out
MaxSubscriptionNotices == 3  \* notifications persisted before new requests stop

SubscriptionStarts ==
    \/ /\ Len(plans) < MaxPlans
       /\ \E s \in {"admin", "alice"}, d \in {0, 1} :
             CreatePlanStart(1, s, [intervalDays |-> d])
    \/ \E i \in 1..MaxPlans : TogglePlanStart(1, "admin", i)
    \/ /\ Len(paymentMethods) < MaxPaymentMethods
       /\ \E s \in {"alice", Anon}, t \in {"credit_card", "cash"} :
             AddPaymentMethodStart(1, s, t)
    \/ /\ Len(subscriptions) < MaxSubscriptions
       /\ \E s \in {"alice", "bob", Anon}, i \in 1..MaxPlans, m \in 1..MaxPaymentMethods :
             SubscribeStart(1, s, i, m)
    \/ \E s \in {"alice", "bob"}, op \in SubscriptionOps, i \in 1..MaxSubscriptions :
          ChangeSubscriptionStart(1, s, op, i)

SubscriptionNext ==
    \/ Tick
    \/ /\ Len(notifications) < MaxSubscriptionNotices
       /\ SubscriptionStarts
    \/ CreatePlanInsert(1)
    \/ TogglePlanGetPlan(1)
    \/ TogglePlanRead(1)
    \/ TogglePlanWrite(1)
    \/ AddPaymentMethodInsert(1)
    \/ SubscribeGetPlan(1)
    \/ SubscribeGetPaymentMethod(1)
    \/ SubscribeCreate(1)
    \/ SubscribeNotify(1)
    \/ ChangeSubscriptionGet(1)
    \/ ChangeSubscriptionUpdate(1)
    \/ ChangeSubscriptionNotify(1)

SpecSubscription == Init /\ [][SubscriptionNext]_vars

(***************************************************************************)
(* Claims about subscriptions.                                             *)
(***************************************************************************)
StatusMoves ==
    {<<"active", "paused">>, <<"paused", "active">>,
     <<"active", "cancelled">>, <<"paused", "cancelled">>}

\* C15: a subscription's status moves only active->paused, paused->active and
\* active|paused->cancelled; a cancelled subscription stays cancelled.
C15_StatusMoves ==
    [][\A i \in DOMAIN subscriptions :
          \/ subscriptions'[i].status = subscriptions[i].status
          \/ <<subscriptions[i].status, subscriptions'[i].status>> \in StatusMoves]_vars

\* The write of a pause on an active subscription makes it paused, the write of
\* a resume on a paused one makes it active, and neither touches anything else
\* of the row.
C16_Write(r) ==
    (pc[r] = "cs_update" /\ pc'[r] # pc[r]) =>
        LET before == subscriptions[req[r].id]
            after  == subscriptions'[req[r].id]
        IN  /\ (req[r].kind = "pause" /\ before.status = "active")
                  => after = [before EXCEPT !.status = "paused"]
            /\ (req[r].kind = "resume" /\ before.status = "paused")
                  => after = [before EXCEPT !.status = "active"]

\* C16: pausing an active subscription and then resuming it brings its status
\* back to 'active' with planId and userId as they were.
C16_PauseResume == [][\A r \in Slots : C16_Write(r)]_vars

\* The owner's resume of a subscription that a pause had paused has gone through.
C16_Witness ==
    \E r \in Slots :
        /\ pc[r] = "done" /\ req[r].kind = "resume" /\ resp[r].status = 200
        /\ snap[r].subscriptions[req[r].id].status = "paused"
        /\ \E n \in DOMAIN notifications : notifications[n].type = "subscription_paused"
        /\ subscriptions[req[r].id].status = "active"
        /\ subscriptions[req[r].id].planId = snap[r].subscriptions[req[r].id].planId
        /\ subscriptions[req[r].id].userId = snap[r].subscriptions[req[r].id].userId

\* C17: the next delivery date a subscription was created with is never
\* changed again: no pause, resume, cancel or passing of time moves it.
C17_DateSetOnce ==
    [][\A i \in DOMAIN subscriptions :
          subscriptions'[i].nextDeliveryDate = subscriptions[i].nextDeliveryDate]_vars

\* A paused or cancelled subscription whose delivery date has passed.
C17_Witness ==
    \E i \in DOMAIN subscriptions :
        /\ subscriptions[i].status \in {"paused", "cancelled"}
        /\ now > subscriptions[i].nextDeliveryDate

(***************************************************************************)
(* notifications.ts: the sockets and the push.                             *)
(***************************************************************************)
\* userConnections.get(userId), undefined read as no sockets.
connectionsOf(userId) ==
    IF userId \in DOMAIN userConnections THEN userConnections[userId] ELSE <<>>

\* The "connection" handler's writes: the list is created if the user id has
\* none, and the socket pushed onto it.
withConnection(userId, ws) ==
    [u \in DOMAIN userConnections \cup {userId} |->
        IF u = userId THEN Append(connectionsOf(userId), ws) ELSE userConnections[u]]

\* connections.indexOf(ws) and splice(index, 1): the first occurrence goes.
RECURSIVE splice(_, _)
splice(connections, ws) ==
    IF connections = <<>> THEN <<>>
    ELSE IF Head(connections) = ws THEN Tail(connections)
    ELSE <<Head(connections)>> \o splice(Tail(connections), ws)

\* (a slip: the user id keeps its emptied list)
withoutConnectionKeepingKey(userId, ws) ==
    IF userId \notin DOMAIN userConnections THEN userConnections
    ELSE [userConnections EXCEPT ![userId] = splice(@, ws)]

\* The "close" handler's writes: the socket is spliced out of its user's list
\* and a list left empty is deleted from the map.
withoutConnection(userId, ws) ==
    IF userId \notin DOMAIN userConnections THEN userConnections
    ELSE LET connections == splice(userConnections[userId], ws)
         IN  IF connections = <<>>
             THEN [u \in DOMAIN userConnections \ {userId} |-> userConnections[u]]
             ELSE [userConnections EXCEPT ![userId] = connections]

\* wss.on("connection"): the socket is registered under the user id its URL
\* names.
WsConnect(userId) ==
    /\ sockets' = Append(sockets, [userId |-> userId, readyState |-> "OPEN"])
    /\ userConnections' = withConnection(userId, Len(sockets) + 1)
    /\ sent' = Append(sent, <<>>)
    /\ UNCHANGED <<now, users, promotions, orders, orderItems, catalog, notifications,
                   reviews, plans, subscriptions, paymentMethods, clientVars, reqVars>>

\* The closing handshake starts: the socket is CLOSING, its "close" event has
\* not been emitted yet.
WsClosing(ws) ==
    /\ ws \in DOMAIN sockets
    /\ sockets[ws].readyState = "OPEN"
    /\ sockets' = [sockets EXCEPT ![ws].readyState = "CLOSING"]
    /\ UNCHANGED <<now, users, promotions, orders, orderItems, catalog, notifications,
                   reviews, plans, subscriptions, paymentMethods, userConnections, sent,
                   clientVars, reqVars>>

\* The socket becomes CLOSED and emits "close", after a handshake or when the
\* connection drops: ws.on("close") runs with the user id it registered with.
WsOnClose(ws) ==
    /\ ws \in DOMAIN sockets
    /\ sockets[ws].readyState \in {"OPEN", "CLOSING"}
    /\ sockets' = [sockets EXCEPT ![ws].readyState = "CLOSED"]
    /\ userConnections' = withoutConnection(sockets[ws].userId, ws)
    /\ UNCHANGED <<now, users, promotions, orders, orderItems, catalog, notifications,
                   reviews, plans, subscriptions, paymentMethods, sent,
                   clientVars, reqVars>>

\* sendNotificationToUser: the envelope goes to each OPEN socket of the user.
sendNotificationToUser(userId, notification) ==
    [c \in DOMAIN sent |->
        IF \E k \in DOMAIN connectionsOf(userId) :
              /\ connectionsOf(userId)[k] = c
              /\ sockets[c].readyState = "OPEN"
        THEN Append(sent[c], [type |-> "notification", data |-> notification])
        ELSE sent[c]]

\* createAndSendNotification, the service registerNotificationRoutes returns;
\* no route module calls it.
createAndSendNotification(userId, notificationData) ==
    /\ notifications' = createNotification([userId |-> userId,
                                            type |-> notificationData.type])
    /\ sent' = sendNotificationToUser(userId, notifications'[Len(notifications')])
    /\ UNCHANGED <<now, users, promotions, orders, orderItems, catalog,
                   reviews, plans, subscriptions, paymentMethods, sockets, userConnections,
                   clientVars, reqVars>>

\* The user's rows, newest first.
getUserNotifications(userId) ==
    LET mine == SelectSeq(notifications, LAMBDA n : n.userId = userId)
    IN  [i \in 1..Len(mine) |-> mine[Len(mine) + 1 - i]]

\* GET /api/notifications.
GetNotificationsStart(r, s) ==
    /\ Arrive(r, [kind |-> "getNotifications", session |-> s], <<>>)
    /\ IF ~ensureAuthenticated(s)
       THEN Respond(r, Status(401))
       ELSE Goto(r, "gn_query", <<>>)
    /\ UNCHANGED <<now, dbVars>>

GetNotificationsQuery(r) ==
    /\ pc[r] = "gn_query"
    /\ Respond(r, [status |-> 200, notifications |-> getUserNotifications(req[r].session)])
    /\ UNCHANGED <<now, dbVars, req, snap>>

(***************************************************************************)
(* Notifications: clients open and close sockets, a customer places        *)
(* orders and reads the notification list.                                 *)
(***************************************************************************)
MaxSockets == 3          \* sockets ever opened
MaxNotifiedOrders == 1   \* orders placed while sockets are exercised

NotifyNext ==
    \/ /\ Len(sockets) < MaxSockets
       /\ \E u \in Customers : WsConnect(u)
    \/ \E ws \in 1..MaxSockets : WsClosing(ws)
    \/ \E ws \in 1..MaxSockets : WsOnClose(ws)
    \/ /\ Len(orders) < MaxNotifiedOrders
       /\ PlaceOrderStart(1, "alice", DeliveryOrderBody)
    \/ PlaceOrderSteps(1)
    \/ \E s \in {"alice", "bob", Anon} : GetNotificationsStart(1, s)
    \/ GetNotificationsQuery(1)

SpecNotify == Init /\ [][NotifyNext]_vars

\* The notification a step has just persisted, if any.
Persisted == notifications'[Len(notifications')]

\* C18: when a notification for user u is persisted, its envelope is pushed to
\* every OPEN socket registered under u and to no socket of another user.
C18_PushedOnPersist ==
    [][Len(notifications') = Len(notifications) + 1
          => sent' = sendNotificationToUser(Persisted.userId, Persisted)]_vars

\* How many times socket ws occurs in a connection list.
RECURSIVE Occurrences(_, _)
Occurrences(connections, ws) ==
    IF connections = <<>> THEN 0
    ELSE (IF Head(connections) = ws THEN 1 ELSE 0) + Occurrences(Tail(connections), ws)

\* C29: every user id present in the map has a non-empty list; a socket that
\* was opened and has not closed occurs exactly once under the user id it
\* registered with and under no other; a closed socket occurs under no user id.
C29_RegistryConsistent ==
    /\ \A u \in DOMAIN userConnections : userConnections[u] # <<>>
    /\ \A ws \in DOMAIN sockets : \A u \in DOMAIN userConnections :
          Occurrences(userConnections[u], ws) =
              IF sockets[ws].readyState # "CLOSED" /\ u = sockets[ws].userId THEN 1 ELSE 0
    /\ \A ws \in DOMAIN sockets :
          sockets[ws].readyState # "CLOSED" => sockets[ws].userId \in DOMAIN userConnections

\* Two sockets were opened under one user id and a third under another; the
\* first has closed and the last too, taking its user id out of the map.
C29_Witness ==
    /\ Len(sockets) = 3
    /\ sockets[1].userId = sockets[2].userId
    /\ sockets[3].userId # sockets[1].userId
    /\ sockets[1].readyState = "CLOSED"
    /\ sockets[2].readyState = "CLOSING"
    /\ sockets[3].readyState = "CLOSED"
    /\ DOMAIN userConnections = {sockets[1].userId}
    /\ userConnections[sockets[1].userId] = <<2>>

(***************************************************************************)
(* The admin routes: the admin works in one slot (orders are placed there  *)
(* too, so that there is something to administer) while customers and      *)
(* anonymous callers try the same routes in the other.                     *)
(***************************************************************************)
MaxAdminOrders == 1       \* orders placed
MaxAdminPromotions == 1   \* promotions created
MaxAdminPlans == 1        \* subscription plans created
MaxAdminNotices == 2      \* notifications persisted before new requests stop

AdminRouteStarts(r, s) ==
    \/ /\ Len(promotions) < MaxAdminPromotions
       /\ CreatePromotionStart(r, s, BasePromotion)
    \/ \E i \in {"Traditional", "Calzone"}, k \in {0 - 1, 0} : UpdateStockStart(r, s, i, k)
    \/ LowStockStart(r, s)
    \/ \E o \in 1..MaxAdminOrders, st \in {"delivered", "eaten"} : AdminStatusStart(r, s, o, st)
    \/ \E o \in 1..MaxAdminOrders : TrackingStart(r, s, o, "https://track", now + 1)
    \/ \E o \in 1..MaxAdminOrders : DeliveredStart(r, s, o)
    \/ /\ Len(plans) < MaxAdminPlans
       /\ CreatePlanStart(r, s, [intervalDays |-> 1])
    \/ \E i \in 1..MaxAdminPlans : TogglePlanStart(r, s, i)

AdminNext ==
    \/ /\ Len(orders) < MaxAdminOrders
       /\ PlaceOrderStart(1, "alice", DeliveryOrderBody)
    \/ PlaceOrderSteps(1)
    \/ /\ Len(notifications) < MaxAdminNotices
       /\ AdminRouteStarts(1, "admin")
    \/ \E s \in {"alice", Anon} : AdminRouteStarts(2, s)
    \/ CreatePromotionInsert(1)
    \/ UpdateStockUpdate(1)
    \/ LowStockQuery(1)
    \/ AdminStatusGetOrder(1)
    \/ AdminStatusUpdate(1)
    \/ AdminStatusNotify(1)
    \/ TrackingGetOrder(1)
    \/ TrackingUpdate(1)
    \/ TrackingNotify(1)
    \/ DeliveredGetOrder(1)
    \/ DeliveredUpdate(1)
    \/ DeliveredNotify(1)
    \/ CreatePlanInsert(1)
    \/ TogglePlanGetPlan(1)
    \/ TogglePlanRead(1)
    \/ TogglePlanWrite(1)

SpecAdmin == Init /\ [][AdminNext]_vars

\* The requests that go to a route under /api/admin.
AdminKinds ==
    {"createPromotion", "updateStock", "lowStock", "adminStatus", "adminTracking",
     "adminDelivered", "createPlan", "togglePlan"}

\* Slot r has just taken a new request.
Arrived(r) == Free(r) /\ <<pc'[r], req'[r], resp'[r]>> # <<pc[r], req[r], resp[r]>>

\* The session is signed in as a user whose isAdmin is true.
SignedInAdmin(s) == s \in Users /\ users[s].isAdmin

\* C20: a request to an admin route from a session that is not a signed-in
\* admin is answered 403 in the step it arrives, with no row of any table
\* changed; the rest of an admin route's handler, where storage is read and
\* written, only ever runs for a signed-in admin.
C20_AdminOnly ==
    [][\A r \in Slots :
          /\ (Arrived(r) /\ req'[r].kind \in AdminKinds /\ ~SignedInAdmin(req'[r].session))
                => /\ pc'[r] = "done"
                   /\ resp'[r] = Status(403)
                   /\ UNCHANGED dbVars
          /\ (~Free(r) /\ req[r].kind \in AdminKinds) => SignedInAdmin(req[r].session)]_vars

\* A customer has been refused on an admin route while an order, a promotion
\* and a plan exist, and so has an anonymous caller at some point before.
C20_Witness ==
    /\ pc[2] = "done" /\ req[2].kind \in AdminKinds /\ req[2].session = "alice"
    /\ resp[2] = Status(403)
    /\ pc[1] \notin {"idle", "done"} /\ req[1].kind \in AdminKinds
    /\ Len(orders) > 0 /\ Len(promotions) > 0 /\ Len(plans) > 0

(***************************************************************************)
(* Order placement under load and failure: two customers place orders at   *)
(* the same time, and any awaited storage call of the handler may reject,  *)
(* which its catch block turns into a 500.                                 *)
(***************************************************************************)
\* (a slip: the catch block undoes the order row)
ordersAfterErrorRolledBack(r) == SubSeq(orders, 1, snap[r].orders)

\* The catch block of POST /api/orders logs and answers; it writes nothing.
ordersAfterError(r) == orders

\* An awaited storage call of POST /api/orders rejects.
PlaceOrderFails(r) ==
    /\ pc[r] \in {"po_createOrder", "po_createItem", "po_getItems", "po_notify"}
    /\ orders' = ordersAfterError(r)
    /\ Respond(r, [status |-> 500, message |-> "Error creating order"])
    /\ UNCHANGED <<now, extVars, users, promotions, orderItems, catalog, notifications,
                   req, snap>>

MaxPlacedOrders == 1   \* orders stored before new requests stop

ShortAddress == "4 Elm St"

\* String.length of the addresses used here.
AddressLength(address) ==
    CASE address = "12 Main Street" -> 14
      [] address = ShortAddress     -> 8

\* More of the sauce than the seeded stock of 5 holds.
LineBulk ==
    [pizzaDetails |-> Some([base |-> Some("Traditional"), sauce |-> Some("Marinara"),
                            cheese |-> NULL, toppings |-> <<>>]),
     price |-> Some(Cents(50)), quantity |-> 6]

PlacementBodies ==
    {[totalAmount |-> Some(Cents(100)), deliveryAddress |-> "12 Main Street",
      items |-> <<LineTraditional>>],
     [totalAmount |-> Some(Cents(100)), deliveryAddress |-> "12 Main Street",
      items |-> <<LineBulk, LineThinCrust>>],
     [totalAmount |-> Some(Cents(100)), deliveryAddress |-> ShortAddress,
      items |-> <<LineTraditional>>],
     [totalAmount |-> NULL, deliveryAddress |-> "12 Main Street", items |-> <<LineTraditional>>]}

PlacementNext ==
    \/ /\ Len(orders) < MaxPlacedOrders
       /\ \E b \in PlacementBodies :
             \/ \E s \in {"alice", Anon} : PlaceOrderStart(1, s, b)
             \/ PlaceOrderStart(2, "bob", b)
    \/ \E r \in Slots :
          \/ PlaceOrderSteps(r)
          \/ PlaceOrderCreateItem(r)
          \/ PlaceOrderFails(r)

SpecPlacement == Init /\ [][PlacementNext]_vars

\* C21: an order request whose delivery address has fewer than 10 characters
\* is answered 400 and leaves orders, order items and stock as they were.
C21_ShortAddressRejected ==
    \A r \in Slots :
        (/\ pc[r] # "idle" /\ req[r].kind = "placeOrder"
         /\ req[r].session \in Users
         /\ AddressLength(req[r].body.deliveryAddress) < 10)
            => /\ pc[r] = "done" /\ resp[r].status = 400
               /\ Len(orders) = snap[r].orders
               /\ Len(orderItems) = snap[r].orderItems
               /\ StockOf = snap[r].stock

\* C22: the step that answers an order placement with 201 appends one
\* 'order_created' notification for the ordering user; no other step of an
\* order placement, and none of a refused or failed one, appends any.
C22_OneNoticePerOrder ==
    [][\/ /\ \E r \in Slots :
                /\ pc[r] = "po_notify" /\ pc'[r] = "done" /\ resp'[r].status = 201
                /\ notifications' =
                      Append(notifications,
                             [id |-> Len(notifications) + 1, userId |-> req[r].session,
                              type |-> "order_created", isRead |-> FALSE])
          /\ \A r \in Slots :
                (pc'[r] = "done" /\ req'[r].kind = "placeOrder" /\ resp'[r].status = 201)
                    => (pc[r] \in {"po_notify", "done"})
       \/ /\ notifications' = notifications
          /\ \A r \in Slots :
                (pc'[r] = "done" /\ pc[r] # "done" /\ req'[r].kind = "placeOrder")
                    => resp'[r].status # 201]_vars

\* Both customers' orders were accepted and each has its one notification.
C22_Witness ==
    /\ \A r \in Slots : Placed(r)
    /\ Len(notifications) = 2
    /\ {notifications[n].userId : n \in DOMAIN notifications} = {"alice", "bob"}
    /\ \A n \in DOMAIN notifications : notifications[n].type = "order_created"

\* C23: when a storage call of an order placement fails, the request is
\* answered 500 with a message and every row written before the failure stays:
\* the failing step changes no table.
C23_NoRollback ==
    [][\A r \in Slots :
          (/\ pc[r] \in {"po_createOrder", "po_createItem", "po_getItems", "po_notify"}
           /\ pc'[r] = "done" /\ resp'[r].status # 201)
              => /\ resp'[r] = [status |-> 500, message |-> "Error creating order"]
                 /\ UNCHANGED dbVars]_vars

\* A placement was answered 500 after its order row and one of its two items
\* had been written; both are still stored and the second item is not.
C23_Witness ==
    \E r \in Slots :
        /\ pc[r] = "done" /\ req[r].kind = "placeOrder" /\ resp[r].status = 500
        /\ Len(req[r].body.items) = 2
        /\ \E o \in DOMAIN orders :
              /\ o > snap[r].orders /\ orders[o].userId = req[r].session
              /\ Cardinality({k \in DOMAIN orderItems : orderItems[k].orderId = o}) = 1

\* C24: an accepted order that asks for more of an item than is in stock takes
\* the item's stock below zero.
C24_StockGoesNegative ==
    \A r \in Slots :
        Placed(r) =>
            \A i \in DOMAIN catalog :
                Demand(req[r].body.items, i) > snap[r].stock[i] => catalog[i].stock < 0

MaxCapPromotions == 1   \* promotions created
MaxCapOrders == 2       \* orders placed

CapNext ==
    \/ /\ Len(promotions) < MaxCapPromotions
       /\ \E p \in {BasePromotion, [BasePromotion EXCEPT !.code = "1"]} :
             CreatePromotionStart(1, "admin", p)
    \/ CreatePromotionInsert(1)
    \/ /\ Len(orders) < MaxCapOrders
       /\ PlaceOrderStart(1, "alice", DeliveryOrderBody)
    \/ PlaceOrderSteps(1)
    \/ \E r \in Slots, o \in 1..MaxCapOrders, c \in {"SAVE20", "1"} :
          ApplyPromotionStart(r, "alice", o, c)
    \/ \E r \in Slots :
          \/ ApplyPromotionGetOrder(r)
          \/ ApplyPromotionValidate(r)
          \/ ApplyPromotionUpdateOrder(r)
          \/ ApplyPromotionIncrementLookup(r)
          \/ ApplyPromotionIncrementUpdate(r)

SpecPromoCap == Init /\ [][CapNext]_vars

\* The orders a promotion has been applied to.
AppliedTo(id) == {o \in DOMAIN orders : orders[o].promotionId = Some(id)}

\* C26: a capped promotion is never applied to more orders than its cap.
C26_CapRespected ==
    \A id \in DOMAIN promotions :
        ~IsNull(promotions[id].maxUses)
            => Cardinality(AppliedTo(id)) <= Val(promotions[id].maxUses)

(***************************************************************************)
(* Paying again: customers place orders and call POST /api/process-payment *)
(* for them, any number of times, two requests at a time.  Nothing else    *)
(* writes a balance here, so a balance is the sum of the points credited.  *)
(***************************************************************************)
MaxRepaidOrders == 1   \* orders placed

RepayNext ==
    \/ /\ Len(orders) < MaxRepaidOrders
       /\ PlaceOrderStart(1, "alice", DeliveryOrderBody)
    \/ PlaceOrderSteps(1)
    \/ \E r \in Slots, s \in {"alice", "bob"}, o \in 1..MaxRepaidOrders,
          a \in {Cents(97), Cents(10)} : ProcessPaymentStart(r, s, o, a)
    \/ \E r \in Slots : ProcessPaymentSteps(r)

SpecRepay == Init /\ [][RepayNext]_vars

\* The points the orders of a user are worth, floor(totalAmount / 10) each.
RECURSIVE PointsWorth(_, _)
PointsWorth(u, n) ==
    IF n = 0 THEN 0
    ELSE (IF orders[n].userId = u THEN earnedPoints(orders[n].totalAmount) ELSE 0)
            + PointsWorth(u, n - 1)

\* C27: the points credited to a user for their orders never exceed what
\* the orders are worth, floor(totalAmount / 10) for each order once.
C27_CreditedOnce ==
    \A u \in Users : users[u].loyaltyPoints <= PointsWorth(u, Len(orders))

(***************************************************************************)
(* Paying for someone else's order: a customer places orders; she, another *)
(* customer and anonymous callers use the three endpoints that record a    *)
(* payment.                                                                *)
(***************************************************************************)
MaxForeignOrders == 1   \* orders placed

ForeignNext ==
    \/ /\ Len(orders) < MaxForeignOrders
       /\ PlaceOrderStart(1, "alice", DeliveryOrderBody)
    \/ PlaceOrderSteps(1)
    \/ \E s \in {"alice", "bob", Anon}, o \in 1..MaxForeignOrders : PaymentStart(1, s, o)
    \/ PaymentUpdatePayment(1)
    \/ PaymentUpdateStatus(1)
    \/ \E s \in {"alice", "bob", Anon}, o \in 1..MaxForeignOrders :
          ProcessPaymentStart(1, s, o, Cents(97))
    \/ ProcessPaymentSteps(1)
    \/ \E e \in {"payment.captured", "payment.failed", "refund.created"},
          o \in 1..MaxForeignOrders : WebhookStart(1, e, o)
    \/ WebhookUpdate(1)

SpecForeign == Init /\ [][ForeignNext]_vars

PaymentFields(order) == <<order.paymentId, order.paymentStatus, order.status>>

\* The request in slot r comes from the signed-in owner of the order.
ByOwner(r, order) ==
    /\ req[r].kind \in {"payment", "processPayment"}
    /\ req[r].session = order.userId

\* C28: the payment id, payment status and status of an order change only in
\* a step of a payment request made by the order's owner; a payment request
\* from anyone else ends with 401 or 403.
C28_OwnerOnly ==
    [][/\ \A o \in DOMAIN orders :
             PaymentFields(orders'[o]) # PaymentFields(orders[o]) => ByOwner(1, orders[o])
       /\ (/\ pc'[1] = "done" /\ pc[1] # "done"
           /\ req'[1].kind \in {"payment", "processPayment"}
           /\ req'[1].orderId \in DOMAIN orders
           /\ req'[1].session # orders[req'[1].orderId].userId)
              => resp'[1].status \in {401, 403}]_vars

(***************************************************************************)
(* The pizza builder of the browser: the wizard (pizza-builder.tsx) over   *)
(* the pizza being built (pizza-builder-context.tsx) and the cart           *)
(* (cart-context.tsx).  An event handler runs to its end and React renders  *)
(* its state updates before the next click is delivered, so each handler    *)
(* is one step.  The two providers are mounted above the router: the pizza  *)
(* and the cart outlive a change of page, the wizard's step does not.       *)
(***************************************************************************)
MaxCart == 2   \* pizzas in the cart before the wizard stops adding

\* What GET /api/pizza-bases, -sauces, -cheeses and -toppings returned.
pizzaBases == {[id |-> 1, name |-> "Traditional", price |-> 100],
               [id |-> 2, name |-> "Thin Crust", price |-> 120]}
pizzaSauces == {[id |-> 1, name |-> "Marinara", price |-> 30]}
pizzaCheeses == {[id |-> 1, name |-> "Mozzarella", price |-> 40]}
pizzaToppings == {[id |-> 1, name |-> "Mushrooms", price |-> 30],
                  [id |-> 2, name |-> "Olives", price |-> 25]}

\* toppings.filter(t => t.id !== toppingId)
RECURSIVE withoutTopping(_, _)
withoutTopping(toppings, toppingId) ==
    IF toppings = <<>> THEN <<>>
    ELSE IF Head(toppings).id = toppingId THEN withoutTopping(Tail(toppings), toppingId)
    ELSE <<Head(toppings)>> \o withoutTopping(Tail(toppings), toppingId)

RECURSIVE toppingsPrice(_)
toppingsPrice(toppings) ==
    IF toppings = <<>> THEN 0 ELSE Head(toppings).price + toppingsPrice(Tail(toppings))

calculateTotal ==
    (IF IsNull(pizzaConfig.base) THEN 0 ELSE Val(pizzaConfig.base).price)
    + (IF IsNull(pizzaConfig.sauce) THEN 0 ELSE Val(pizzaConfig.sauce).price)
    + (IF IsNull(pizzaConfig.cheese) THEN 0 ELSE Val(pizzaConfig.cheese).price)
    + toppingsPrice(pizzaConfig.toppings)

\* The cart after addToCart({...pizzaConfig, totalPrice: calculateTotal()}).
addToCart ==
    Append(cartItems, [base |-> pizzaConfig.base, sauce |-> pizzaConfig.sauce,
                       cheese |-> pizzaConfig.cheese, toppings |-> pizzaConfig.toppings,
                       totalPrice |-> calculateTotal, quantity |-> 1])

resetPizza == [base |-> NULL, sauce |-> NULL, cheese |-> NULL, toppings |-> <<>>]

\* (a slip: the toppings step is let through empty)
incompleteWithoutToppingsCheck(step) ==
    \/ step = 1 /\ IsNull(pizzaConfig.base)
    \/ step = 2 /\ IsNull(pizzaConfig.sauce)
    \/ step = 3 /\ IsNull(pizzaConfig.cheese)

\* handleNextStep's validation: the step's choice has not been made.
incomplete(step) ==
    \/ step = 1 /\ IsNull(pizzaConfig.base)
    \/ step = 2 /\ IsNull(pizzaConfig.sauce)
    \/ step = 3 /\ IsNull(pizzaConfig.cheese)
    \/ step = 4 /\ pizzaConfig.toppings = <<>>

\* The wizard is on screen at the given step.
AtStep(step) == page = "builder" /\ currentStep = step

ServerQuiet ==
    UNCHANGED <<now, users, promotions, orders, orderItems, catalog, notifications,
                serverExtVars, reqVars>>

selectBase(base) ==
    /\ AtStep(1)
    /\ pizzaConfig' = [pizzaConfig EXCEPT !.base = Some(base)]
    /\ UNCHANGED <<currentStep, cartItems, page>>
    /\ ServerQuiet

selectSauce(sauce) ==
    /\ AtStep(2)
    /\ pizzaConfig' = [pizzaConfig EXCEPT !.sauce = Some(sauce)]
    /\ UNCHANGED <<currentStep, cartItems, page>>
    /\ ServerQuiet

selectCheese(cheese) ==
    /\ AtStep(3)
    /\ pizzaConfig' = [pizzaConfig EXCEPT !.cheese = Some(cheese)]
    /\ UNCHANGED <<currentStep, cartItems, page>>
    /\ ServerQuiet

\* addTopping: a topping whose id is already on the pizza is not added again.
addTopping(topping) ==
    /\ AtStep(4)
    /\ pizzaConfig' =
          IF \E k \in DOMAIN pizzaConfig.toppings : pizzaConfig.toppings[k].id = topping.id
          THEN pizzaConfig
          ELSE [pizzaConfig EXCEPT !.toppings = Append(@, topping)]
    /\ UNCHANGED <<currentStep, cartItems, page>>
    /\ ServerQuiet

removeTopping(toppingId) ==
    /\ AtStep(4)
    /\ pizzaConfig' = [pizzaConfig EXCEPT !.toppings = withoutTopping(@, toppingId)]
    /\ UNCHANGED <<currentStep, cartItems, page>>
    /\ ServerQuiet

\* Clear All: removeTopping for each selected topping, every one filtered out
\* of the state the previous update left.
ClearAllToppings ==
    /\ AtStep(4)
    /\ pizzaConfig.toppings # <<>>
    /\ pizzaConfig' = [pizzaConfig EXCEPT !.toppings = <<>>]
    /\ UNCHANGED <<currentStep, cartItems, page>>
    /\ ServerQuiet

handlePrevStep ==
    /\ page = "builder"
    /\ currentStep' = IF currentStep > 1 THEN currentStep - 1 ELSE currentStep
    /\ UNCHANGED <<pizzaConfig, cartItems, page>>
    /\ ServerQuiet

\* handleNextStep: the toast and nothing else when the step's choice is
\* missing; otherwise the next step, or from the review step the pizza goes
\* into the cart and the browser to the checkout.
handleNextStep ==
    /\ page = "builder"
    /\ IF incomplete(currentStep)
       THEN UNCHANGED <<currentStep, cartItems, page>>
       ELSE IF currentStep < 5
       THEN /\ currentStep' = currentStep + 1
            /\ UNCHANGED <<cartItems, page>>
       ELSE /\ Len(cartItems) < MaxCart
            /\ cartItems' = addToCart
            /\ page' = "checkout"
            /\ UNCHANGED currentStep
    /\ UNCHANGED pizzaConfig
    /\ ServerQuiet

\* handleFinishAndAddAnother, the review step's second button.
handleFinishAndAddAnother ==
    /\ AtStep(5)
    /\ Len(cartItems) < MaxCart
    /\ cartItems' = addToCart
    /\ pizzaConfig' = resetPizza
    /\ currentStep' = 1
    /\ UNCHANGED page
    /\ ServerQuiet

\* The browser goes to another page; the wizard, mounted anew with
\* /build-pizza, starts at step 1 with the pizza the provider still holds.
Navigate(to) ==
    /\ page # to
    /\ page' = to
    /\ currentStep' = 1
    /\ UNCHANGED <<pizzaConfig, cartItems>>
    /\ ServerQuiet

\* removeFromCart(index), on the checkout page.
removeFromCart(index) ==
    /\ page = "checkout"
    /\ index \in DOMAIN cartItems
    /\ cartItems' = [i \in 1..(Len(cartItems) - 1) |->
                        IF i < index THEN cartItems[i] ELSE cartItems[i + 1]]
    /\ UNCHANGED <<currentStep, pizzaConfig, page>>
    /\ ServerQuiet

BuilderNext ==
    \/ \E base \in pizzaBases : selectBase(base)
    \/ \E sauce \in pizzaSauces : selectSauce(sauce)
    \/ \E cheese \in pizzaCheeses : selectCheese(cheese)
    \/ \E topping \in pizzaToppings : addTopping(topping)
    \/ \E topping \in pizzaToppings : removeTopping(topping.id)
    \/ ClearAllToppings
    \/ handlePrevStep
    \/ handleNextStep
    \/ handleFinishAndAddAnother
    \/ \E to \in {"builder", "checkout"} : Navigate(to)
    \/ \E index \in 1..MaxCart : removeFromCart(index)

SpecBuilder == Init /\ [][BuilderNext]_vars

\* A pizza with base, sauce and cheese, at least one topping and no topping id
\* twice.
WellBuilt(pizza) ==
    /\ ~IsNull(pizza.base)
    /\ ~IsNull(pizza.sauce)
    /\ ~IsNull(pizza.cheese)
    /\ pizza.toppings # <<>>
    /\ \A j, k \in DOMAIN pizza.toppings :
          pizza.toppings[j].id = pizza.toppings[k].id => j = k

\* The choice step `step` asks for has been made.
Chosen(step) ==
    CASE step = 1 -> ~IsNull(pizzaConfig.base)
      [] step = 2 -> ~IsNull(pizzaConfig.sauce)
      [] step = 3 -> ~IsNull(pizzaConfig.cheese)
      [] step = 4 -> pizzaConfig.toppings # <<>>
      [] OTHER -> TRUE

\* C30: the wizard's step stays within 1..5; it moves forward, one step at a
\* time, only from a step whose choice has been made; and every pizza a step
\* puts in the cart has a base, a sauce, a cheese and at least one topping,
\* no topping id twice.
C30_WizardGated ==
    /\ [](currentStep \in 1..5)
    /\ [][currentStep' > currentStep
             => currentStep' = currentStep + 1 /\ Chosen(currentStep)]_vars
    /\ [][Len(cartItems') > Len(cartItems)
             => /\ currentStep = 5
                /\ Len(cartItems') = Len(cartItems) + 1
                /\ WellBuilt(cartItems'[Len(cartItems')])]_vars

\* Both review-step buttons have been used: a pizza with two toppings was
\* added with "Finish and add another", a second built from step 1 and taken
\* to the checkout.
C30_Witness ==
    /\ page = "checkout"
    /\ Len(cartItems) = 2
    /\ Len(cartItems[1].toppings) = 2
    /\ cartItems[2].base # cartItems[1].base

====
